---- MODULE Spec2Model ----
(***************************************************************************)
(* A model of the icongen build pipeline:                                  *)
(*   - content hashing of a source directory (BuildManager and             *)
(*     SpriteGenerator),                                                   *)
(*   - revisioned artifact output of the sprite and the font pipeline,     *)
(*   - the inlineDefs SVGO visitor plugin.                                 *)
(* File names, paths and file contents are sequences of one-character      *)
(* strings / of bytes, so that sorting, pattern matching and concatenation *)
(* are computed as the code computes them.                                 *)
(***************************************************************************)
EXTENDS Integers, Sequences, FiniteSets, TLC

VARIABLES
    src,        \* the source directory: path |-> file content (bytes)
    hcall,      \* the last call of a content hasher and what it returned
    sg,         \* the SpriteGenerator: its options and its contentHash
    sdist,      \* the sprite destination directory (options.dist)
    spc,        \* where the SpriteGenerator.generate() run stands
    srun,       \* the locals of that run
    bm,         \* the BuildManager of the FontGenerator
    fdist,      \* the font destination directory (options.dist)
    fpc,        \* where the FontGenerator.generate() run stands
    frun,       \* what happened in that run
    fruns,      \* the number of font runs started so far
    input,      \* the document handed to the inlineDefs plugin, as parsed
    tree,       \* that document as the plugin has rewritten it so far
    params,     \* the plugin parameters: [onlyUnique]
    uses,       \* fn's uses: the [node, parentNode] pairs of the index build
    useCounts,  \* fn's useCounts: href |-> number of uses
    referencedElements,  \* fn's referencedElements: href |-> node
    replaced,   \* root.exit's replacement of each use it has replaced
    stack,      \* the frames of svgo's visit() that are open
    ipc,        \* where the plugin invocation stands
    configurations,  \* MultiSpriteManager: config.configurations
    dists,      \* the destination directories the configurations name
    results,    \* generateAll's results
    allSuccess, \* generateAll's allSuccess
    bi,         \* the position of generateAll's loop in configurations
    attempted,  \* the names of the configurations generate() was called for
    bpc,        \* where generateAll stands
    racers,     \* two processes in writeSpriteFile on one directory
    events,     \* the steps those processes have taken, in order
    fcss,       \* the text of fontName.css in the font destination directory
    fsizes,     \* the byte sizes of the files of that directory
    fmanifest,  \* the manifest.json of that directory, as last written
    last,       \* the run before this one: its source and what it left
    other,      \* a second invocation of the plugin, while it is suspended
    solo,       \* what the two invocations gave when each ran alone
    active,     \* which of the two invocations is running
    temp,       \* the directory temp-svg-processed of the font destination
    handed,     \* the names of the files svgToFont was given as its src
    tpc,        \* where the run that works on that directory stands
    ids         \* the symbol id generateSpriteId gave each source file

spriteVars == <<sg, sdist, spc, srun>>
fontVars == <<bm, fdist, fpc, frun, fruns>>
inlineVars ==
    <<input, tree, params, uses, useCounts, referencedElements, replaced,
      stack, ipc>>
batchVars ==
    <<configurations, dists, results, allSuccess, bi, attempted, bpc>>
raceVars == <<racers, events>>
assetVars == <<fcss, fsizes, fmanifest>>
rerunVars == <<last>>
pairVars == <<other, solo, active>>
tempVars == <<temp, handed, tpc>>
idVars == <<ids>>
vars ==
    <<src, hcall, sg, sdist, spc, srun, bm, fdist, fpc, frun, fruns,
      input, tree, params, uses, useCounts, referencedElements, replaced,
      stack, ipc, configurations, dists, results, allSuccess, bi, attempted,
      bpc, racers, events, fcss, fsizes, fmanifest, last, other, solo,
      active, temp, handed, tpc, ids>>

----------------------------------------------------------------------------
(* Each specification below runs one part of the pipeline; the variables   *)
(* of the other parts stay at these values.                                *)

NoCall ==
    [who |-> "none", revving |-> FALSE, hashLength |-> 0, ret |-> << >>,
     fed |-> << >>, failed |-> FALSE, raised |-> FALSE,
     listedSorted |-> TRUE]

NoRun ==
    [svgFiles |-> << >>, hashFailed |-> FALSE, spriteFile |-> << >>,
     failedAt |-> "none"]

NoFontRun ==
    [hashFailed |-> FALSE, failedAt |-> "none", cssFailed |-> FALSE,
     manifestFailed |-> FALSE]

HashIdle == hcall = NoCall

SpriteIdle ==
    /\ sg = << >>
    /\ sdist = << >>
    /\ spc = "off"
    /\ srun = NoRun

FontIdle ==
    /\ bm = << >>
    /\ fdist = << >>
    /\ fpc = "off"
    /\ frun = NoFontRun
    /\ fruns = 0

InlineIdle ==
    /\ input = << >>
    /\ tree = << >>
    /\ params = [onlyUnique |-> FALSE]
    /\ uses = << >>
    /\ useCounts = << >>
    /\ referencedElements = << >>
    /\ replaced = << >>
    /\ stack = << >>
    /\ ipc = "off"

BatchIdle ==
    /\ configurations = << >>
    /\ dists = << >>
    /\ results = << >>
    /\ allSuccess = TRUE
    /\ bi = 0
    /\ attempted = << >>
    /\ bpc = "off"

RaceIdle ==
    /\ racers = << >>
    /\ events = << >>

NoManifest == [written |-> FALSE]

AssetIdle ==
    /\ fcss = << >>
    /\ fsizes = << >>
    /\ fmanifest = NoManifest

NoSnapshot == [stamp |-> << >>]

RerunIdle == last = NoSnapshot

PairIdle ==
    /\ other = << >>
    /\ solo = << >>
    /\ active = 0

TempIdle ==
    /\ temp = << >>
    /\ handed = {}
    /\ tpc = "off"

IdIdle == ids = << >>

----------------------------------------------------------------------------
(* Bounds of the model.                                                    *)

\* longest file content, in bytes
MaxLen == 1

\* the number of font generation runs in one behaviour
MaxRuns == 2

\* the longest list of configurations of a batch
MaxConfigs == 2

\* the byte values a file may hold
Byte == {0, 1}

\* values Date.now() may return when a hasher falls back to the timestamp
Timestamps == {46655, 46656}

----------------------------------------------------------------------------
(* Strings as sequences of characters.                                     *)

Base36Digits ==
    << "0", "1", "2", "3", "4", "5", "6", "7", "8", "9",
       "a", "b", "c", "d", "e", "f", "g", "h", "i", "j", "k", "l", "m",
       "n", "o", "p", "q", "r", "s", "t", "u", "v", "w", "x", "y", "z" >>

HexDigits == SubSeq(Base36Digits, 1, 16)

\* the characters of the model in UTF-16 code unit order
CodeUnitOrder == << "-", ".", "/" >> \o Base36Digits

CodeUnit(c) == CHOOSE i \in 1..Len(CodeUnitOrder) : CodeUnitOrder[i] = c

Min(a, b) == IF a < b THEN a ELSE b

\* String.prototype.slice(0, n) / substring(0, n) for n >= 0
Take(s, n) == SubSeq(s, 1, Min(n, Len(s)))

StartsWithAt(s, i, p) ==
    /\ i + Len(p) - 1 <= Len(s)
    /\ \A k \in 1..Len(p) : s[i + k - 1] = p[k]

EndsWith(s, p) ==
    /\ Len(p) <= Len(s)
    /\ SubSeq(s, Len(s) - Len(p) + 1, Len(s)) = p

\* the default comparison of Array.prototype.sort on strings
StrLess(a, b) ==
    \E i \in 1..(Min(Len(a), Len(b)) + 1) :
        /\ \A k \in 1..(i - 1) : a[k] = b[k]
        /\ IF i > Len(a) THEN i <= Len(b)
           ELSE /\ i <= Len(b)
                /\ CodeUnit(a[i]) < CodeUnit(b[i])

SortStrings(s) == SortSeq(s, StrLess)

RECURSIVE Flatten(_)
Flatten(ss) == IF ss = << >> THEN << >> ELSE Head(ss) \o Flatten(Tail(ss))

Range(f) == { f[i] : i \in DOMAIN f }

\* the orders in which a directory listing may return a set of entries
Orders(S) == { o \in [1..Cardinality(S) -> S] : Range(o) = S }

DotSvg == << ".", "s", "v", "g" >>

----------------------------------------------------------------------------
(* The source directory.  Paths are relative to options.src.               *)

PathA  == << "a" >> \o DotSvg
PathB  == << "b" >> \o DotSvg
PathDA == << "d", "/", "a" >> \o DotSvg
PathDN == << "d", "/", "n", ".", "t", "x", "t" >>

SrcPaths == { PathA, PathB, PathDA, PathDN }

\* files whose content varies; the others hold one fixed byte when present
VaryingPaths == { PathA, PathB }

Contents == UNION { [1..n -> Byte] : n \in 1..MaxLen }

ContentsOf(p) == IF p \in VaryingPaths THEN Contents ELSE { << 0 >> }

SrcStates ==
    UNION { { f \in [P -> Contents] : \A p \in P : f[p] \in ContentsOf(p) }
            : P \in SUBSET SrcPaths }

\* index of the first "/" of a path at or after position i, 0 if none
SlashAt(p, i) ==
    IF \E k \in i..Len(p) : p[k] = "/"
    THEN CHOOSE k \in i..Len(p) :
            /\ p[k] = "/"
            /\ \A j \in i..(k - 1) : p[j] # "/"
    ELSE 0

\* path.join(dir, name), the source root being the empty path
Join(dir, name) == IF dir = << >> THEN name ELSE dir \o << "/" >> \o name

\* the files of directory tree `fs` below `dir`
Below(fs, dir) ==
    IF dir = << >> THEN DOMAIN fs
    ELSE { p \in DOMAIN fs : StartsWithAt(p, 1, dir \o << "/" >>) }

\* the name `p` contributes to the listing of `dir`
EntryName(dir, p) ==
    LET from == IF dir = << >> THEN 1 ELSE Len(dir) + 2
        s == SlashAt(p, from)
    IN  IF s = 0 THEN SubSeq(p, from, Len(p)) ELSE SubSeq(p, from, s - 1)

\* fs.readdirSync(dir): the names of the entries of dir
Entries(fs, dir) == { EntryName(dir, p) : p \in Below(fs, dir) }

IsFile(fs, path) == path \in DOMAIN fs
IsDirectory(fs, path) == Below(fs, path) # {}

\* the directories of fs, the root included
Dirs(fs) ==
    { << >> } \cup
    UNION { { SubSeq(p, 1, k - 1) : k \in { j \in 1..Len(p) : p[j] = "/" } }
            : p \in DOMAIN fs }

\* one listing order for every directory of fs
ListingOrders(fs) ==
    { o \in [Dirs(fs) -> UNION { Orders(Entries(fs, d)) : d \in Dirs(fs) }] :
        \A d \in Dirs(fs) : o[d] \in Orders(Entries(fs, d)) }

----------------------------------------------------------------------------
(* Digests.  sha256 and md5 are library functions; the model keeps what    *)
(* the pipeline relies on: a deterministic function of the byte sequence   *)
(* that is sensitive to every byte and to their order, rendered in hex.    *)

DigestHexLen == 4

RECURSIVE Absorb(_, _, _)
Absorb(h, bytes, mult) ==
    IF bytes = << >> THEN h
    ELSE Absorb((h * mult + Head(bytes) + 1) % 65536, Tail(bytes), mult)

RECURSIVE ToHex(_, _)
ToHex(n, digits) ==
    IF digits = 0 THEN << >>
    ELSE ToHex(n \div 16, digits - 1) \o << HexDigits[(n % 16) + 1] >>

Sha256Hex(bytes) == ToHex(Absorb(7, bytes, 31), DigestHexLen)
Md5Hex(bytes) == ToHex(Absorb(5, bytes, 37), DigestHexLen)

\* Number.prototype.toString(36)
RECURSIVE ToBase36(_)
ToBase36(n) ==
    IF n < 36 THEN << Base36Digits[n + 1] >>
    ELSE ToBase36(n \div 36) \o << Base36Digits[(n % 36) + 1] >>

----------------------------------------------------------------------------
(* The content hashers.                                                    *)

\* hash.substring(0, 8) in BuildManager.generateContentHash
BMHashLength == 8

\* options.hashLength || 10 in the SpriteGenerator constructor
DefaultHashLength == 10

\* the hashLength options the model constructs sprite generators with
HashLengths == { 3, DefaultHashLength }

IsSvgName(name) == EndsWith(name, DotSvg)

\* Buffer.concat(files.map(file => fs.readFileSync(file)))
ConcatFiles(fs, files) == Flatten([i \in 1..Len(files) |-> fs[files[i]]])

\* readdirSync(svgDirectory).filter(file => file.endsWith('.svg'))
BMListSvg(listing) == SelectSeq(listing, IsSvgName)

\* ... .sort()
BMSvgFiles(listing) == SortStrings(BMListSvg(listing))

\* BuildManager.generateContentHash(svgDirectory) on a BuildManager `self`
\* ([contentHash, enableHashRevving]); `listing` is what readdirSync returns,
\* dirFails / readFails say whether readdirSync / some readFileSync throws,
\* `now` is Date.now().  Yields the returned string, the new contentHash,
\* the bytes given to the digest and whether the catch branch ran.
BMGenerateContentHash(self, fs, listing, dirFails, readFails, now) ==
    LET svgFiles == BMSvgFiles(listing)
        fallback == ToBase36(now)
        fed      == ConcatFiles(fs, svgFiles)
        hash     == Take(Sha256Hex(fed), BMHashLength)
    IN  IF ~self.enableHashRevving
        THEN [ret |-> << >>, contentHash |-> self.contentHash,
              fed |-> << >>, failed |-> FALSE, raised |-> FALSE]
        ELSE IF dirFails
        THEN [ret |-> fallback, contentHash |-> fallback,
              fed |-> << >>, failed |-> TRUE, raised |-> FALSE]
        ELSE IF Len(svgFiles) = 0
        THEN [ret |-> << >>, contentHash |-> self.contentHash,
              fed |-> << >>, failed |-> FALSE, raised |-> FALSE]
        ELSE IF readFails
        THEN [ret |-> fallback, contentHash |-> fallback,
              fed |-> << >>, failed |-> TRUE, raised |-> FALSE]
        ELSE [ret |-> hash, contentHash |-> hash,
              fed |-> fed, failed |-> FALSE, raised |-> FALSE]

\* SpriteGenerator.findSvgFiles(dir); order[d] is what readdirSync(d) returns
RECURSIVE SGCollect(_, _, _)
SGCollect(fs, dir, order) ==
    LET entries == order[dir]
        visit(name) ==
            LET fullPath == Join(dir, name)
            IN  IF IsDirectory(fs, fullPath)
                THEN SortStrings(SGCollect(fs, fullPath, order))
                ELSE IF IsFile(fs, fullPath) /\ IsSvgName(name)
                THEN << fullPath >>
                ELSE << >>
    IN  Flatten([i \in 1..Len(entries) |-> visit(entries[i])])

SGFindSvgFilesNoSort(fs, order) == SGCollect(fs, << >>, order)
SGFindSvgFiles(fs, order) == SortStrings(SGCollect(fs, << >>, order))

\* a hasher without the catch branch: a failed read reaches the caller
SGGenerateContentHashRethrowing(fs, svgFiles, hashLength, readFails, now) ==
    LET fed == ConcatFiles(fs, svgFiles)
    IN  IF readFails
        THEN [ret |-> << >>, fed |-> << >>, failed |-> TRUE, raised |-> TRUE]
        ELSE [ret |-> Take(Md5Hex(fed), hashLength),
              fed |-> fed, failed |-> FALSE, raised |-> FALSE]

\* SpriteGenerator.generateContentHash(svgFiles)
SGGenerateContentHash(fs, svgFiles, hashLength, readFails, now) ==
    LET fed == ConcatFiles(fs, svgFiles)
    IN  IF readFails
        THEN [ret |-> Take(ToBase36(now), hashLength),
              fed |-> << >>, failed |-> TRUE, raised |-> FALSE]
        ELSE [ret |-> Take(Md5Hex(fed), hashLength),
              fed |-> fed, failed |-> FALSE, raised |-> FALSE]

----------------------------------------------------------------------------
(* Hashing a changing source directory: SpecHash.                          *)
(* hcall describes the last hasher call made on the directory as it is     *)
(* now; editing the directory forgets it.                                  *)

\* what the environment does to one hasher call: every read succeeds, or
\* readdirSync / a readFileSync throws and Date.now() returns `now`
HashEnvs ==
    { [dirFails |-> FALSE, readFails |-> FALSE, now |-> 0] } \cup
    { [dirFails |-> d, readFails |-> ~d, now |-> t] :
        d \in BOOLEAN, t \in Timestamps }

\* one of the files P of the source directory is written or deleted
EditPaths(P) ==
    \E p \in P :
        \/ \E c \in ContentsOf(p) :
              /\ src' = [q \in (DOMAIN src) \cup {p} |->
                            IF q = p THEN c ELSE src[q]]
              /\ src' # src
        \/ /\ p \in DOMAIN src
           /\ src' = [q \in (DOMAIN src) \ {p} |-> src[q]]

EditSource ==
    /\ EditPaths(SrcPaths)
    /\ hcall' = NoCall
    /\ UNCHANGED <<idVars, tempVars, pairVars, assetVars, rerunVars, raceVars, batchVars, spriteVars, fontVars, inlineVars>>

\* new BuildManager({enableHashRevving}).generateContentHash(src)
HashWithBuildManager ==
    \E revving \in BOOLEAN, listing \in Orders(Entries(src, << >>)),
       env \in HashEnvs :
        LET self == [contentHash |-> << >>, enableHashRevving |-> revving]
            r == BMGenerateContentHash(self, src, listing, env.dirFails,
                                       env.readFails, env.now)
        IN  /\ hcall' = [who |-> "BuildManager", revving |-> revving,
                         hashLength |-> BMHashLength, ret |-> r.ret,
                         fed |-> r.fed, failed |-> r.failed,
                         raised |-> r.raised,
                         listedSorted |-> (listing = SortStrings(listing))]
            /\ UNCHANGED <<idVars, tempVars, src, pairVars, assetVars, rerunVars, raceVars, batchVars, spriteVars, fontVars, inlineVars>>

\* the hashing steps of SpriteGenerator.generate() with hash revving enabled
HashWithSpriteGenerator ==
    \E order \in ListingOrders(src), hashLength \in HashLengths,
       env \in HashEnvs :
        LET svgFiles == SGFindSvgFiles(src, order)
            r == SGGenerateContentHash(src, svgFiles, hashLength,
                                       env.readFails, env.now)
        IN  /\ ~env.dirFails
            /\ Len(svgFiles) > 0
            /\ hcall' = [who |-> "SpriteGenerator", revving |-> TRUE,
                         hashLength |-> hashLength, ret |-> r.ret,
                         fed |-> r.fed, failed |-> r.failed,
                         raised |-> r.raised,
                         listedSorted |->
                            \A d \in DOMAIN order :
                                order[d] = SortStrings(order[d])]
            /\ UNCHANGED <<idVars, tempVars, src, pairVars, assetVars, rerunVars, raceVars, batchVars, spriteVars, fontVars, inlineVars>>

HashInit ==
    /\ src \in SrcStates
    /\ hcall = NoCall
    /\ SpriteIdle
    /\ FontIdle
    /\ InlineIdle
    /\ BatchIdle
    /\ RaceIdle
    /\ AssetIdle
    /\ RerunIdle
    /\ TempIdle
    /\ IdIdle
    /\ PairIdle

HashNext ==
    \/ EditSource
    \/ HashWithBuildManager
    \/ HashWithSpriteGenerator

SpecHash == HashInit /\ [][HashNext]_vars

\* the source asset set a hasher works on: BuildManager takes the .svg
\* files directly in the directory, SpriteGenerator those of the whole tree
AssetSet(who, fs) ==
    LET P == { p \in DOMAIN fs :
                 /\ IsSvgName(p)
                 /\ who = "BuildManager" => SlashAt(p, 1) = 0 }
    IN  [p \in P |-> fs[p]]

SomeOrder(fs) == CHOOSE o \in ListingOrders(fs) : TRUE

\* what hasher `who` returns for directory fs listed in `order` when every
\* read succeeds: the returned hash and the bytes given to the digest
HashOf(who, fs, order, hashLength) ==
    IF who = "BuildManager"
    THEN BMGenerateContentHash(
             [contentHash |-> << >>, enableHashRevving |-> TRUE],
             fs, order[<< >>], FALSE, FALSE, 0)
    ELSE SGGenerateContentHash(fs, SGFindSvgFiles(fs, order), hashLength,
                               FALSE, 0)

Hashed == hcall.who # "none" /\ hcall.revving /\ ~hcall.failed

\* C3: for fixed source files with fixed contents, the hash a hasher returns
\* (every file readable) is the same on every invocation and is the same
\* for every order in which the directory listings return their entries.
HashDeterminism ==
    Hashed =>
        \A order \in ListingOrders(src) :
            hcall.ret = HashOf(hcall.who, src, order, hcall.hashLength).ret

\* C3 witness: a hash was returned for two or more files whose directory
\* listing came back unsorted.
HashDeterminismWitness ==
    /\ Hashed
    /\ hcall.who = "SpriteGenerator"
    /\ ~hcall.listedSorted
    /\ Cardinality(DOMAIN AssetSet(hcall.who, src)) >= 2
    /\ hcall.ret = Take(Md5Hex(hcall.fed), hcall.hashLength)

\* C4: two source asset sets that differ in the content of a file or in
\* membership give the digest different byte sequences.
HashSensitivity ==
    Hashed =>
        \A fs2 \in SrcStates :
            AssetSet(hcall.who, fs2) # AssetSet(hcall.who, src) =>
                HashOf(hcall.who, fs2, SomeOrder(fs2), hcall.hashLength).fed
                    # hcall.fed

----------------------------------------------------------------------------
(* The sprite pipeline: SpriteGenerator.generate().                        *)

Dash == << "-" >>
IndexHtml == << "i", "n", "d", "e", "x", ".", "h", "t", "m", "l" >>

\* [a-zA-Z0-9] over the characters of the model
Alnum == Range(Base36Digits)

\* a character of the pattern source against a character of the subject:
\* "." in a spriteName is the regular expression's wildcard
PatternChar(pch, ch) == pch = "." \/ pch = ch

\* new RegExp(`${spriteName}(?:-[a-zA-Z0-9]+)?\\.svg`).test(file)
SpritePatternNoHashGroup(spriteName, file) ==
    \E i \in 1..Len(file) :
        LET j == i + Len(spriteName)
        IN  /\ j - 1 <= Len(file)
            /\ \A k \in 1..Len(spriteName) :
                  PatternChar(spriteName[k], file[i + k - 1])
            /\ StartsWithAt(file, j, DotSvg)

SpritePatternTest(spriteName, file) ==
    \E i \in 1..Len(file) :
        LET j == i + Len(spriteName)
        IN  /\ j - 1 <= Len(file)
            /\ \A k \in 1..Len(spriteName) :
                  PatternChar(spriteName[k], file[i + k - 1])
            /\ \/ StartsWithAt(file, j, DotSvg)
               \/ /\ StartsWithAt(file, j, Dash)
                  /\ \E n \in 1..(Len(file) - j) :
                        /\ \A k \in 1..n : file[j + k] \in Alnum
                        /\ StartsWithAt(file, j + n + 1, DotSvg)

\* the sprite file name of writeSpriteFile and getSpriteUrl
SpriteFileName(g) ==
    IF g.enableHashRevving
    THEN g.spriteName \o Dash \o g.contentHash \o DotSvg
    ELSE g.spriteName \o DotSvg

\* new SpriteGenerator(options)
SpriteNames == { << "s" >>, << "i", ".", "s" >> }

NewSpriteGenerator(spriteName, hashLength, revving, showcase) ==
    [spriteName |-> spriteName, hashLength |-> hashLength,
     enableHashRevving |-> revving, generateShowcase |-> showcase,
     contentHash |-> << >>]

SpriteGenerators ==
    { NewSpriteGenerator(n, h, r, c) :
        n \in SpriteNames, h \in HashLengths, r \in BOOLEAN, c \in BOOLEAN }

\* the source files of the sprite runs
SpritePaths == { PathA, PathDA, PathDN }
SpriteSrcStates == { f \in SrcStates : DOMAIN f \subseteq SpritePaths }

\* what a destination directory may hold before the first run: a revision
\* and an unrevisioned sprite of the same name left by earlier runs, the
\* sprites of two other configurations, and a showcase page
StaleHash == << "9", "z" >>
OtherHash == << "0", "a" >>

LeftoverFiles(spriteName) ==
    { spriteName \o Dash \o StaleHash \o DotSvg,
      spriteName \o DotSvg,
      << "t" >> \o Dash \o OtherHash \o DotSvg,
      << "x" >> \o spriteName \o Dash \o OtherHash \o DotSvg,
      IndexHtml }

NoDirectory == [exists |-> FALSE, files |-> {}]
Directory(files) == [exists |-> TRUE, files |-> files]

Resting == { "idle", "returned", "failed" }

\* the source directory changes between two runs
SpriteEditSource ==
    /\ spc \in Resting
    /\ EditPaths(SpritePaths)
    /\ UNCHANGED <<idVars, tempVars, hcall, pairVars, assetVars, rerunVars, raceVars, batchVars, spriteVars, fontVars, inlineVars>>

\* a generate() that goes on with no files
NoSvgFilesFoundIgnored(svgFiles) == FALSE

\* generate(): svgFiles.length === 0
NoSvgFilesFound(svgFiles) == Len(svgFiles) = 0

\* generate(): findSvgFiles, the empty check and the content hash
SGStart ==
    /\ spc \in Resting
    /\ \E order \in ListingOrders(src), env \in HashEnvs :
          LET svgFiles == SGFindSvgFiles(src, order)
              r == SGGenerateContentHash(src, svgFiles, sg.hashLength,
                                         env.readFails, env.now)
          IN  IF env.dirFails \/ NoSvgFilesFound(svgFiles)
              THEN /\ spc' = "failed"
                   /\ srun' = [NoRun EXCEPT !.failedAt = "find"]
                   /\ UNCHANGED sg
              ELSE IF sg.enableHashRevving /\ r.raised
              THEN /\ spc' = "failed"
                   /\ srun' = [NoRun EXCEPT !.svgFiles = svgFiles,
                                            !.hashFailed = r.failed,
                                            !.failedAt = "hash"]
                   /\ UNCHANGED sg
              ELSE /\ spc' = "hashed"
                   /\ srun' = [NoRun EXCEPT !.svgFiles = svgFiles,
                                            !.hashFailed =
                                               sg.enableHashRevving
                                               /\ r.failed]
                   /\ sg' = IF sg.enableHashRevving
                            THEN [sg EXCEPT !.contentHash = r.ret]
                            ELSE sg
    /\ UNCHANGED <<idVars, tempVars, src, hcall, sdist, pairVars, assetVars, rerunVars, raceVars, batchVars, fontVars, inlineVars>>

\* generate(): createSpriteInstance, processSvgFiles and compileSprite;
\* a file read or the packer may fail
SGBuild ==
    /\ spc = "hashed"
    /\ \/ /\ spc' = "compiled"
          /\ UNCHANGED srun
       \/ /\ spc' = "failed"
          /\ srun' = [srun EXCEPT !.failedAt = "build"]
    /\ UNCHANGED <<idVars, tempVars, src, hcall, sg, sdist, pairVars, assetVars, rerunVars, raceVars, batchVars, fontVars, inlineVars>>

\* writeSpriteFile(): cleanupOldSprites(outputDir); an unlinkSync may throw
\* after some of the files are gone
SGPurge ==
    /\ spc = "compiled"
    /\ LET old == { f \in sdist.files : SpritePatternTest(sg.spriteName, f) }
       IN  \/ /\ sdist' = [sdist EXCEPT !.files = @ \ old]
              /\ spc' = "purged"
              /\ UNCHANGED srun
           \/ /\ \E gone \in SUBSET old :
                    /\ gone # old
                    /\ sdist' = [sdist EXCEPT !.files = @ \ gone]
              /\ spc' = "failed"
              /\ srun' = [srun EXCEPT !.failedAt = "purge"]
    /\ UNCHANGED <<idVars, tempVars, src, hcall, sg, pairVars, assetVars, rerunVars, raceVars, batchVars, fontVars, inlineVars>>

\* writeSpriteFile(): mkdirSync and writeFileSync, either of which may throw
SGWriteFile ==
    /\ spc = "purged"
    /\ \/ /\ sdist' = Directory(sdist.files \cup { SpriteFileName(sg) })
          /\ srun' = [srun EXCEPT !.spriteFile = SpriteFileName(sg)]
          /\ spc' = "written"
       \/ /\ spc' = "failed"
          /\ srun' = [srun EXCEPT !.failedAt = "write"]
          /\ UNCHANGED sdist
    /\ UNCHANGED <<idVars, tempVars, src, hcall, sg, pairVars, assetVars, rerunVars, raceVars, batchVars, fontVars, inlineVars>>

\* generate(): the showcase page, when asked for, and the return
SGFinish ==
    /\ spc = "written"
    /\ IF sg.generateShowcase
       THEN \/ /\ sdist' = Directory(sdist.files \cup { IndexHtml })
               /\ spc' = "returned"
               /\ UNCHANGED srun
            \/ /\ spc' = "failed"
               /\ srun' = [srun EXCEPT !.failedAt = "showcase"]
               /\ UNCHANGED sdist
       ELSE /\ spc' = "returned"
            /\ UNCHANGED <<sdist, srun>>
    /\ UNCHANGED <<idVars, tempVars, src, hcall, sg, pairVars, assetVars, rerunVars, raceVars, batchVars, fontVars, inlineVars>>

SpriteInit ==
    /\ src \in SpriteSrcStates
    /\ HashIdle
    /\ sg \in SpriteGenerators
    /\ sdist \in { NoDirectory, Directory({}),
                   Directory(LeftoverFiles(sg.spriteName)) }
    /\ spc = "idle"
    /\ srun = NoRun
    /\ FontIdle
    /\ InlineIdle
    /\ BatchIdle
    /\ RaceIdle
    /\ AssetIdle
    /\ RerunIdle
    /\ TempIdle
    /\ IdIdle
    /\ PairIdle

SpriteNext ==
    \/ SpriteEditSource
    \/ SGStart
    \/ SGBuild
    \/ SGPurge
    \/ SGWriteFile
    \/ SGFinish

SpecSprite == SpriteInit /\ [][SpriteNext]_vars

\* the files of a directory that are sprites of spriteName: spriteName.svg
\* and spriteName-<hash>.svg
IsSpriteOf(spriteName, file) ==
    \/ file = spriteName \o DotSvg
    \/ /\ Len(file) > Len(spriteName) + 5
       /\ SubSeq(file, 1, Len(spriteName) + 1) = spriteName \o Dash
       /\ EndsWith(file, DotSvg)
       /\ \A k \in (Len(spriteName) + 2)..(Len(file) - 4) : file[k] \in Alnum

SpritesOf(spriteName, dir) ==
    { f \in dir.files : IsSpriteOf(spriteName, f) }

EmptySourceFatal ==
    [][((\A p \in DOMAIN src : ~IsSvgName(p))
          /\ spc \in Resting /\ src' = src /\ spriteVars' # spriteVars) =>
          /\ spc' = "failed"
          /\ srun'.failedAt = "find"
          /\ sdist' = sdist
          /\ sg' = sg]_vars

\* C11 witness: a run has failed finding files in a source directory that
\* holds only a file that is no .svg, and the sprite of an earlier run is
\* in the destination directory.
EmptySourceFatalWitness ==
    /\ spc = "failed"
    /\ srun.failedAt = "find"
    /\ DOMAIN src = { PathDN }
    /\ sg.enableHashRevving
    /\ sg.contentHash # << >>
    /\ SpriteFileName(sg) \in sdist.files

----------------------------------------------------------------------------
(* The font pipeline: FontGenerator.generate() and its BuildManager.       *)

Dot == << "." >>
FontName == << "f" >>
Css == << "c", "s", "s" >>
ManifestJson ==
    << "m", "a", "n", "i", "f", "e", "s", "t", ".", "j", "s", "o", "n" >>
TypesTs == << "t", "y", "p", "e", "s", ".", "t", "s" >>

\* the extensions of renameFilesWithHash, in its order
FontExts ==
    << << "t", "t", "f" >>, << "w", "o", "f", "f" >>,
       << "w", "o", "f", "f", "2" >>, << "e", "o", "t" >>,
       << "s", "v", "g" >> >>

\* new BuildManager(options)
NewBuildManager(revving) ==
    [contentHash |-> << >>, enableHashRevving |-> revving]

\* BuildManager.getHashedFilename(baseName, extension)
GetHashedFilename(self, baseName, extension) ==
    IF self.contentHash = << >>
    THEN baseName \o Dot \o extension
    ELSE baseName \o Dot \o self.contentHash \o Dot \o extension

\* the five font files a BuildManager names for fontName
HashedFontsOf(self, fontName) ==
    { GetHashedFilename(self, fontName, FontExts[i]) :
        i \in 1..Len(FontExts) }

\* the files svgToFont writes into dist: the five fonts and the style sheet
FontOutputs(fontName) ==
    { fontName \o Dot \o FontExts[i] : i \in 1..Len(FontExts) }
        \cup { fontName \o Dot \o Css }

\* BuildManager.renameFilesWithHash(distDirectory, fontName): the files of
\* the directory after the renames
RenameFilesWithHash(self, files, fontName) ==
    IF self.contentHash = << >> THEN files
    ELSE LET present == { i \in 1..Len(FontExts) :
                            fontName \o Dot \o FontExts[i] \in files }
         IN  (files \ { fontName \o Dot \o FontExts[i] : i \in present })
             \cup { GetHashedFilename(self, fontName, FontExts[i]) :
                      i \in present }

\* the sizes of the five fonts svgToFont writes, by position in FontExts
CompiledSizes == [i \in 1..Len(FontExts) |-> i]

\* the sizes of the fonts a directory may hold
SizeProfiles ==
    { CompiledSizes,
      [i \in 1..Len(FontExts) |-> IF i = 1 THEN 1536 ELSE 1] }

\* renameFilesWithHash: the sizes of the files after the renames
RenameSizes(self, files, sizes, fontName) ==
    LET present == { i \in 1..Len(FontExts) :
                       fontName \o Dot \o FontExts[i] \in files }
        olds == { fontName \o Dot \o FontExts[i] : i \in present }
        news == { GetHashedFilename(self, fontName, FontExts[i]) :
                    i \in present }
        source(f) ==
            fontName \o Dot \o
              FontExts[CHOOSE i \in present :
                         f = GetHashedFilename(self, fontName, FontExts[i])]
    IN  IF self.contentHash = << >> THEN sizes
        ELSE [f \in ((DOMAIN sizes) \ olds) \cup news |->
                 IF f \in news THEN sizes[source(f)] ELSE sizes[f]]

Quotes == { "'", "\"" }
UrlOpen == << "u", "r", "l", "(" >>

\* where a match of one of the two patterns of updateCSSWithHashedFilenames
\* that starts at s[i] ends (the index after it), 0 when none starts there:
\*   withQuery:  url\(['"]?old\?[^'"]*['"]?\)     else:  url\(['"]?old['"]?\)
\* [^'"]* is greedy: it runs up to the last ")" it can give back
MatchEnd(s, i, old, withQuery) ==
    LET a == i + Len(UrlOpen)
        b == IF a <= Len(s) /\ s[a] \in Quotes THEN a + 1 ELSE a
        c == b + Len(old)
        k == IF \E x \in (c + 1)..Len(s) : s[x] \in Quotes
             THEN CHOOSE x \in (c + 1)..Len(s) :
                     /\ s[x] \in Quotes
                     /\ \A y \in (c + 1)..(x - 1) : s[y] \notin Quotes
             ELSE Len(s) + 1
        ends == { m + 1 : m \in { x \in (c + 1)..(k - 1) : s[x] = ")" } }
                  \cup (IF k + 1 <= Len(s) /\ s[k + 1] = ")"
                        THEN { k + 2 } ELSE {})
    IN  IF ~(StartsWithAt(s, i, UrlOpen) /\ StartsWithAt(s, b, old))
        THEN 0
        ELSE IF withQuery
        THEN IF c <= Len(s) /\ s[c] = "?" /\ ends # {}
             THEN CHOOSE e \in ends : \A x \in ends : x <= e
             ELSE 0
        ELSE IF c + 1 <= Len(s) /\ s[c] \in Quotes /\ s[c + 1] = ")"
        THEN c + 2
        ELSE IF c <= Len(s) /\ s[c] = ")"
        THEN c + 1
        ELSE 0

\* cssContent.replace(pattern, newText) for a global pattern, from s[i] on
RECURSIVE ReplaceAll(_, _, _, _, _)
ReplaceAll(s, i, old, withQuery, newText) ==
    IF i > Len(s) THEN << >>
    ELSE LET e == MatchEnd(s, i, old, withQuery)
         IN  IF e = 0
             THEN << s[i] >> \o ReplaceAll(s, i + 1, old, withQuery, newText)
             ELSE newText \o ReplaceAll(s, e, old, withQuery, newText)

\* `url("${newName}")`
UrlOf(newName) == UrlOpen \o << "\"" >> \o newName \o << "\"", ")" >>

\* a reference of a style sheet: url(<open><name><query><close>)
Ref(open, name, query, close) ==
    UrlOpen \o open \o name \o query \o close \o << ")" >>

Sq == << "'" >>
Dq == << "\"" >>
None == << >>
Query == << "?", "t" >>
Comma == << "," >>
Ttf == FontName \o Dot \o FontExts[1]
Woff == FontName \o Dot \o FontExts[2]
Woff2 == FontName \o Dot \o FontExts[3]
Eot == FontName \o Dot \o FontExts[4]

\* the style sheets svgToFont may have written: references quoted with ',
\* with " or not at all, with and without a query, and other text
QuotedSheet ==
    Ref(Sq, Ttf, Query, Sq) \o Comma \o Ref(Dq, Woff2, None, Dq)
PlainSheet ==
    Ref(None, Woff, None, None) \o << "a", "{", "}" >>
        \o Ref(Sq, Woff2, Query, Sq)
UnquotedQuerySheet ==
    Ref(None, Ttf, Query, None) \o Comma \o Ref(None, Woff, Query, None)
UnquotedQueryText ==
    Ref(None, Eot, Query, None) \o << "a", "(", ")" >>
OtherFontSheet ==
    Ref(Sq, << "g" >> \o Dot \o FontExts[1], None, Sq) \o Comma
        \o Ref(Dq, Eot, Query, Dq)
NoReferenceSheet == << "a", "{", "}" >>

StyleSheets ==
    { QuotedSheet, PlainSheet, UnquotedQuerySheet, UnquotedQueryText,
      OtherFontSheet, NoReferenceSheet }

\* updateCSSWithHashedFilenames: one pass of the loop over replacements,
\* both patterns of one extension
ReplaceExtension(self, cssContent, fontName, i) ==
    LET old == fontName \o Dot \o FontExts[i]
        newText == UrlOf(GetHashedFilename(self, fontName, FontExts[i]))
    IN  ReplaceAll(ReplaceAll(cssContent, 1, old, TRUE, newText),
                   1, old, FALSE, newText)

\* updateCSSWithHashedFilenames(distDirectory, fontName): the text written
RECURSIVE UpdateCSSFrom(_, _, _, _)
UpdateCSSFrom(self, cssContent, fontName, i) ==
    IF i > Len(FontExts) THEN cssContent
    ELSE UpdateCSSFrom(self, ReplaceExtension(self, cssContent, fontName, i),
                       fontName, i + 1)

UpdateCSSWithHashedFilenames(self, cssContent, fontName) ==
    UpdateCSSFrom(self, cssContent, fontName, 1)

\* generateManifest: sizeDisplay
SizeDisplay(sizeInBytes) ==
    IF sizeInBytes < 1024
    THEN [tenths |-> sizeInBytes * 10, unit |-> "B"]
    ELSE IF sizeInBytes < 1024 * 1024
    THEN [tenths |-> (sizeInBytes * 10 + 512) \div 1024, unit |-> "KB"]
    ELSE [tenths |-> (sizeInBytes * 10 + 524288) \div 1048576,
          unit |-> "MB"]

RECURSIVE SumSizes(_, _)
SumSizes(sizes, S) ==
    IF S = {} THEN 0
    ELSE LET f == CHOOSE x \in S : TRUE
         IN  sizes[f] + SumSizes(sizes, S \ {f})

\* a manifest that accounts for every font name, present or not
GenerateManifestUnchecked(self, files, sizes, fontName) ==
    [written |-> TRUE,
     hash |-> self.contentHash,
     css |-> fontName \o Dot \o Css,
     fonts |-> [i \in 1..Len(FontExts) |->
                   GetHashedFilename(self, fontName, FontExts[i])],
     totalSize |-> Len(FontExts),
     fileSizes |-> [f \in HashedFontsOf(self, fontName) |-> SizeDisplay(1)]]

\* generateManifest(distDirectory, fontName, iconList): the manifest it
\* writes (generatedAt and icons are left out)
GenerateManifest(self, files, sizes, fontName) ==
    LET present == HashedFontsOf(self, fontName) \cap files
    IN  [written |-> TRUE,
         hash |-> self.contentHash,
         css |-> fontName \o Dot \o Css,
         fonts |-> [i \in 1..Len(FontExts) |->
                       GetHashedFilename(self, fontName, FontExts[i])],
         totalSize |-> SumSizes(sizes, present),
         fileSizes |-> [f \in present |-> SizeDisplay(sizes[f])]]

FontPaths == { PathA, PathDA }
FontSrcStates == { f \in SrcStates : DOMAIN f \subseteq FontPaths }

FontFail(step) ==
    /\ fpc' = "failed"
    /\ frun' = [frun EXCEPT !.failedAt = step]

\* the source directory changes between two runs
FontEditSource ==
    /\ fpc \in Resting
    /\ EditPaths(FontPaths)
    /\ UNCHANGED <<idVars, tempVars, hcall, pairVars, assetVars, rerunVars, raceVars, batchVars, spriteVars, fontVars, inlineVars>>

\* new FontGenerator(options): a fresh BuildManager
FGConstruct ==
    /\ fpc \in Resting
    /\ \E revving \in BOOLEAN : bm' = NewBuildManager(revving)
    /\ fpc' = "idle"
    /\ frun' = NoFontRun
    /\ UNCHANGED <<idVars, tempVars, src, hcall, pairVars, assetVars, rerunVars, raceVars, batchVars, spriteVars, inlineVars, fdist, fruns>>

\* generate(): the content hash, then dist and the temporary directory
FGStart ==
    /\ fpc \in Resting
    /\ fruns < MaxRuns
    /\ fruns' = fruns + 1
    /\ \E listing \in Orders(Entries(src, << >>)), env \in HashEnvs,
          mkdirOk \in BOOLEAN :
          LET r == BMGenerateContentHash(bm, src, listing, env.dirFails,
                                         env.readFails, env.now)
          IN  /\ bm' = [bm EXCEPT !.contentHash = r.contentHash]
              /\ IF r.raised
                 THEN /\ fpc' = "failed"
                      /\ frun' = [NoFontRun EXCEPT
                                    !.hashFailed = r.failed,
                                    !.failedAt = "hash"]
                      /\ UNCHANGED fdist
                 ELSE IF ~mkdirOk
                 THEN /\ fpc' = "failed"
                      /\ frun' = [NoFontRun EXCEPT
                                    !.hashFailed = r.failed,
                                    !.failedAt = "mkdir"]
                      /\ UNCHANGED fdist
                 ELSE /\ fpc' = "started"
                      /\ frun' = [NoFontRun EXCEPT
                                    !.hashFailed = r.failed]
                      /\ fdist' = Directory(fdist.files)
    /\ UNCHANGED <<idVars, tempVars, src, hcall, pairVars, assetVars, rerunVars, raceVars, batchVars, spriteVars, inlineVars>>

\* generate(): the sources are copied to the temporary directory and
\* optimized; a copy may throw
FGPrepare ==
    /\ fpc = "started"
    /\ \/ /\ fpc' = "prepared"
          /\ UNCHANGED frun
       \/ FontFail("prepare")
    /\ UNCHANGED <<idVars, tempVars, src, hcall, pairVars, assetVars, rerunVars, raceVars, batchVars, spriteVars, inlineVars, bm, fdist, fruns>>

\* generate(): svgToFont writes the fonts and the style sheet, or throws
FGCompile ==
    /\ fpc = "prepared"
    /\ \/ /\ fdist' = Directory(fdist.files \cup FontOutputs(FontName))
          /\ \E sheet \in StyleSheets : fcss' = sheet
          /\ fsizes' =
                [f \in (DOMAIN fsizes) \cup
                         { FontName \o Dot \o FontExts[i] :
                             i \in 1..Len(FontExts) } |->
                    IF \E i \in 1..Len(FontExts) :
                          f = FontName \o Dot \o FontExts[i]
                    THEN CompiledSizes[CHOOSE i \in 1..Len(FontExts) :
                                          f = FontName \o Dot \o FontExts[i]]
                    ELSE fsizes[f]]
          /\ fpc' = "compiled"
          /\ UNCHANGED frun
       \/ /\ FontFail("compile")
          /\ UNCHANGED <<fdist, fcss, fsizes>>
    /\ UNCHANGED <<idVars, tempVars, src, hcall, pairVars, fmanifest, rerunVars, raceVars, batchVars,
                   spriteVars, inlineVars, bm, fruns>>

\* renameFilesWithHash(distDirectory, fontName) on a directory: the renames,
\* then updateCSSWithHashedFilenames, whose failure is logged
RenameCall ==
    IF bm.contentHash = << >>
    THEN UNCHANGED <<fdist, fsizes, fcss, frun>>
    ELSE /\ fdist' = Directory(RenameFilesWithHash(bm, fdist.files, FontName))
         /\ fsizes' = RenameSizes(bm, fdist.files, fsizes, FontName)
         /\ IF FontName \o Dot \o Css \notin fdist.files
            THEN UNCHANGED <<fcss, frun>>
            ELSE \/ /\ fcss' = UpdateCSSWithHashedFilenames(bm, fcss,
                                                            FontName)
                    /\ frun' = [frun EXCEPT !.cssFailed = FALSE]
                 \/ /\ frun' = [frun EXCEPT !.cssFailed = TRUE]
                    /\ UNCHANGED fcss

\* generate(): renameFilesWithHash when hash revving is enabled
FGRename ==
    /\ fpc = "compiled"
    /\ IF bm.enableHashRevving
       THEN RenameCall
       ELSE UNCHANGED <<fdist, fsizes, fcss, frun>>
    /\ fpc' = "renamed"
    /\ UNCHANGED <<idVars, tempVars, src, hcall, pairVars, fmanifest, rerunVars, raceVars, batchVars,
                   spriteVars, inlineVars, bm, fruns>>

\* generate(): normalizeCSSClassNames (no class to rename: the source
\* names are lower case and without spaces), generateTypes, which may
\* throw, and generateCustomShowcase
FGPost ==
    /\ fpc = "renamed"
    /\ \/ /\ fdist' = Directory(fdist.files \cup { TypesTs })
          /\ fpc' = "typed"
          /\ UNCHANGED frun
       \/ /\ FontFail("types")
          /\ UNCHANGED fdist
    /\ UNCHANGED <<idVars, tempVars, src, hcall, pairVars, assetVars, rerunVars, raceVars, batchVars, spriteVars, inlineVars, bm, fruns>>

\* generateManifest(distDirectory, fontName, iconList) on a directory;
\* an error of its write is caught and logged
ManifestCall ==
    IF bm.contentHash = << >>
    THEN UNCHANGED <<fdist, fmanifest, frun>>
    ELSE \/ /\ fdist' = Directory(fdist.files \cup { ManifestJson })
            /\ fmanifest' = GenerateManifest(bm, fdist.files, fsizes,
                                             FontName)
            /\ frun' = [frun EXCEPT !.manifestFailed = FALSE]
         \/ /\ frun' = [frun EXCEPT !.manifestFailed = TRUE]
            /\ UNCHANGED <<fdist, fmanifest>>

\* generate(): generateManifest and the removal of the temporary directory
FGFinish ==
    /\ fpc = "typed"
    /\ ManifestCall
    /\ fpc' = "returned"
    /\ UNCHANGED <<idVars, tempVars, src, hcall, fcss, fsizes, pairVars, rerunVars, raceVars, batchVars,
                   spriteVars, inlineVars, bm, fruns>>

FontInit ==
    /\ src \in FontSrcStates
    /\ HashIdle
    /\ SpriteIdle
    /\ bm \in { NewBuildManager(r) : r \in BOOLEAN }
    /\ fdist \in { NoDirectory, Directory({}) }
    /\ fpc = "idle"
    /\ frun = NoFontRun
    /\ fruns = 0
    /\ InlineIdle
    /\ BatchIdle
    /\ RaceIdle
    /\ AssetIdle
    /\ RerunIdle
    /\ TempIdle
    /\ IdIdle
    /\ PairIdle

FontNext ==
    \/ FontEditSource
    \/ FGConstruct
    \/ FGStart
    \/ FGPrepare
    \/ FGCompile
    \/ FGRename
    \/ FGPost
    \/ FGFinish

SpecFont == FontInit /\ [][FontNext]_vars

\* the files of a directory of the form fontName[.hash].ext
FontFilesOf(fontName, ext, dir) ==
    { f \in dir.files :
        \/ f = fontName \o Dot \o ext
        \/ /\ Len(f) > Len(fontName) + Len(ext) + 2
           /\ StartsWithAt(f, 1, fontName \o Dot)
           /\ EndsWith(f, Dot \o ext)
           /\ \A k \in (Len(fontName) + 2)..(Len(f) - Len(ext) - 1) :
                 f[k] \in Alnum }

\* C2: after a font run with hash revving has returned, for each extension
\* at most one file fontName[.hash].ext exists, namely
\* fontName.<current hash>.ext; the files of earlier hashes are deleted.
FontRevisioning ==
    (fpc = "returned" /\ bm.enableHashRevving) =>
        \A i \in 1..Len(FontExts) :
            FontFilesOf(FontName, FontExts[i], fdist)
                \subseteq { GetHashedFilename(bm, FontName, FontExts[i]) }

----------------------------------------------------------------------------
(* The BuildManager on a directory as it finds it: SpecBuild.              *)

\* BuildManagers that hold a hash, or none
BuildManagers ==
    { [NewBuildManager(TRUE) EXCEPT !.contentHash = h] :
        h \in { << >>, << "h" >>, << "k" >> } }

\* which of the five fonts a directory holds, by position in FontExts
Presences == { {}, {1}, {2, 5}, 1..Len(FontExts) }

\* the directories: fonts not yet renamed, fonts of the hash "h", and the
\* style sheet or none
BuildDirs ==
    { { FontName \o Dot \o FontExts[i] : i \in P }
        \cup { FontName \o Dot \o << "h" >> \o Dot \o FontExts[i] : i \in Q }
        \cup C :
        P \in Presences, Q \in Presences,
        C \in { {}, { FontName \o Dot \o Css } } }

\* the position in FontExts of the extension of a font file
ExtOf(f) ==
    CHOOSE i \in 1..Len(FontExts) :
        /\ EndsWith(f, Dot \o FontExts[i])
        /\ \A j \in 1..Len(FontExts) :
              EndsWith(f, Dot \o FontExts[j]) =>
                  Len(FontExts[j]) <= Len(FontExts[i])

\* renameFilesWithHash is called
BuildRename ==
    /\ fpc \in { "built", "renamed", "manifested" }
    /\ RenameCall
    /\ fpc' = "renamed"
    /\ UNCHANGED <<idVars, tempVars, src, hcall, pairVars, fmanifest, rerunVars, raceVars, batchVars,
                   spriteVars, inlineVars, bm, fruns>>

\* generateManifest is called
BuildManifest ==
    /\ fpc \in { "built", "renamed", "manifested" }
    /\ ManifestCall
    /\ fpc' = "manifested"
    /\ UNCHANGED <<idVars, tempVars, src, hcall, fcss, fsizes, pairVars, rerunVars, raceVars, batchVars,
                   spriteVars, inlineVars, bm, fruns>>

BuildInit ==
    /\ src = << >>
    /\ HashIdle
    /\ SpriteIdle
    /\ InlineIdle
    /\ BatchIdle
    /\ RaceIdle
    /\ RerunIdle
    /\ TempIdle
    /\ IdIdle
    /\ PairIdle
    /\ bm \in BuildManagers
    /\ \E files \in BuildDirs :
          /\ fdist = Directory(files)
          /\ fcss \in IF FontName \o Dot \o Css \in files
                      THEN StyleSheets ELSE { << >> }
          /\ \E profile \in SizeProfiles :
                fsizes = [f \in files \ { FontName \o Dot \o Css } |->
                             profile[ExtOf(f)]]
    /\ fmanifest = NoManifest
    /\ fpc = "built"
    /\ frun = NoFontRun
    /\ fruns = 0

BuildNext == BuildRename \/ BuildManifest

SpecBuild == BuildInit /\ [][BuildNext]_vars

\* the number of url( openings of a style sheet
UrlCount(s) == Cardinality({ i \in 1..Len(s) : StartsWithAt(s, i, UrlOpen) })

\* the number of url(...) references of a style sheet to the file name,
\* quoted or not, with or without a query
NameCount(s, name) ==
    Cardinality(
        { i \in 1..Len(s) :
            \E q \in { None, Sq, Dq } :
                LET e == i + Len(UrlOpen) + Len(q) + Len(name)
                IN  /\ StartsWithAt(s, i, UrlOpen \o q \o name)
                    /\ e <= Len(s)
                    /\ s[e] \in Quotes \cup { "?", ")" } })

\* the text of a style sheet outside its url(...) groups
RECURSIVE Outside(_, _, _)
Outside(s, i, inside) ==
    IF i > Len(s) THEN << >>
    ELSE IF inside
    THEN Outside(s, i + 1, s[i] # ")")
    ELSE IF StartsWithAt(s, i, UrlOpen)
    THEN Outside(s, i + Len(UrlOpen), TRUE)
    ELSE << s[i] >> \o Outside(s, i + 1, FALSE)

\* C15: a renameFilesWithHash that rewrites the style sheet leaves, for
\* each of the five extensions, no url(...) reference to fontName.ext and
\* one reference to fontName.<hash>.ext for each that there was; the number
\* of url(...) references and the text outside them are unchanged.
ReferenceRewrite ==
    [][(/\ fpc' = "renamed"
        /\ bm.contentHash # << >>
        /\ FontName \o Dot \o Css \in fdist.files
        /\ ~frun'.cssFailed) =>
          /\ \A i \in 1..Len(FontExts) :
                LET old == FontName \o Dot \o FontExts[i]
                    hashed == GetHashedFilename(bm, FontName, FontExts[i])
                IN  /\ NameCount(fcss', old) = 0
                    /\ NameCount(fcss', hashed) =
                          NameCount(fcss, hashed) + NameCount(fcss, old)
          /\ UrlCount(fcss') = UrlCount(fcss)
          /\ Outside(fcss', 1, FALSE) = Outside(fcss, 1, FALSE)]_vars

\* C16: the manifest generateManifest writes has in fileSizes exactly the
\* hash-named fonts that are in the directory at that moment, in totalSize
\* the sum of their sizes (a missing font adds nothing and is no error),
\* and in fonts the five names fontName.<hash>.ext of its hash field.
ManifestAccounting ==
    [][fmanifest' # fmanifest =>
          LET present == { f \in fdist.files :
                             \E i \in 1..Len(FontExts) :
                                f = FontName \o Dot \o bm.contentHash
                                      \o Dot \o FontExts[i] }
          IN  /\ fmanifest'.written
              /\ ~frun'.manifestFailed
              /\ DOMAIN fmanifest'.fileSizes = present
              /\ fmanifest'.totalSize = SumSizes(fsizes, present)
              /\ fmanifest'.hash = bm.contentHash
              /\ \A i \in 1..Len(FontExts) :
                    fmanifest'.fonts[i] =
                        FontName \o Dot \o fmanifest'.hash \o Dot
                          \o FontExts[i]]_vars

\* C16 witness: a manifest was written while three of the five fonts of
\* the hash were missing, and it accounts for the two that were there.
ManifestAccountingWitness ==
    /\ fpc = "manifested"
    /\ fmanifest.written
    /\ ~frun.manifestFailed
    /\ Cardinality(HashedFontsOf(bm, FontName) \cap fdist.files) = 2
    /\ Cardinality(DOMAIN fmanifest.fileSizes) = 2
    /\ fmanifest.totalSize = 7

\* C17: a failed write of manifest.json makes generate() fail.
ManifestFailureFatal == frun.manifestFailed => fpc # "returned"

\* C18: when a font run has returned, the manifest.json in the directory
\* is the one that run wrote: its hash is the hash of the run and its fonts
\* are the fonts the run left.
ManifestFreshness ==
    (fpc = "returned" /\ ManifestJson \in fdist.files) =>
        /\ fmanifest.hash = bm.contentHash
        /\ \A i \in 1..Len(FontExts) :
              fmanifest.fonts[i] =
                  GetHashedFilename(bm, FontName, FontExts[i])

----------------------------------------------------------------------------
(* Runs of either pipeline: SpecRuns.                                      *)

RunsInit == SpriteInit \/ FontInit

RunsNext == SpriteNext \/ FontNext

SpecRuns == RunsInit /\ [][RunsNext]_vars

\* the timestamp-derived pseudo-hashes, as long as a hasher of hashLength
\* returns them
Fallbacks(hashLength) ==
    { Take(ToBase36(t), hashLength) : t \in Timestamps }

\* the renamed fonts of a BuildManager
HashedFonts(self) ==
    { GetHashedFilename(self, FontName, FontExts[i]) :
        i \in 1..Len(FontExts) }

\* C10: when a read fails while the hash is computed, the hasher raises
\* nothing to generate(): the run does not fail at the hashing step, the
\* generator holds a non-empty pseudo-hash derived from the timestamp, and
\* the artifacts the run goes on to write carry that value in their names.
HasherFailurePolicy ==
    /\ (spc \notin {"off", "idle"} /\ srun.hashFailed) =>
          /\ srun.failedAt # "hash"
          /\ sg.contentHash # << >>
          /\ sg.contentHash \in Fallbacks(sg.hashLength)
          /\ spc \in {"written", "returned"} =>
                /\ srun.spriteFile =
                      sg.spriteName \o Dash \o sg.contentHash \o DotSvg
                /\ srun.spriteFile \in sdist.files
    /\ (fpc \notin {"off", "idle"} /\ frun.hashFailed) =>
          /\ frun.failedAt # "hash"
          /\ bm.contentHash # << >>
          /\ bm.contentHash \in { ToBase36(t) : t \in Timestamps }
          /\ fpc \in {"renamed", "typed", "returned"} =>
                /\ HashedFonts(bm) \subseteq fdist.files
                /\ \A i \in 1..Len(FontExts) :
                      FontName \o Dot \o FontExts[i] \notin fdist.files

\* C10 witness: a sprite run whose hasher could not read a file has
\* returned, its sprite named with the pseudo-hash.
HasherFailurePolicyWitness ==
    /\ spc = "returned"
    /\ srun.hashFailed
    /\ sg.contentHash \in Fallbacks(sg.hashLength)
    /\ sg.spriteName \o Dash \o sg.contentHash \o DotSvg \in sdist.files

----------------------------------------------------------------------------
(* The inlineDefs plugin on one document: SpecInline.                      *)
(* A document is a sequence of nodes; a node is named by its index, node 1 *)
(* is the root, and children lists hold indices, so that two lists holding *)
(* the same index hold the same object.                                    *)

RootNode == 1

Root(children) ==
    [type |-> "root", name |-> "", attributes |-> << >>,
     children |-> children]
Element(name, attributes, children) ==
    [type |-> "element", name |-> name, attributes |-> attributes,
     children |-> children]
Instruction ==
    [type |-> "instruction", name |-> "xml", attributes |-> << >>,
     children |-> << >>]

Frame(node, parentNode, children) ==
    [node |-> node, parentNode |-> parentNode, children |-> children,
     next |-> 1]

\* children.filter(child => child !== node)
Without(children, node) == SelectSeq(children, LAMBDA c : c # node)

\* node.attributes['xlink:href'] || node.attributes.href, "" when falsy
Href(attributes) ==
    LET xlink == IF "xlink:href" \in DOMAIN attributes
                 THEN attributes["xlink:href"] ELSE ""
    IN  IF xlink # "" THEN xlink
        ELSE IF "href" \in DOMAIN attributes THEN attributes["href"]
        ELSE ""

\* visitElements(node, fn): the [node, parentNode] pairs fn is called with
RECURSIVE VisitElements(_, _)
VisitElements(t, node) ==
    LET children == t[node].children
        each(child) ==
            IF t[child].type = "element"
            THEN << [node |-> child, parentNode |-> node] >>
                     \o VisitElements(t, child)
            ELSE << >>
    IN  Flatten([i \in 1..Len(children) |-> each(children[i])])

\* the uses array after the index build
IndexUses(t) ==
    SelectSeq(VisitElements(t, t[RootNode].children[1]),
              LAMBDA e : t[e.node].name = "use")

\* the useCounts map after the index build over the first k uses
RECURSIVE IndexCounts(_, _, _)
IndexCounts(t, us, k) ==
    IF k = 0 THEN << >>
    ELSE LET counts == IndexCounts(t, us, k - 1)
             href == Href(t[us[k].node].attributes)
         IN  IF href = "" THEN counts
             ELSE IF href \in DOMAIN counts
             THEN [counts EXCEPT ![href] = @ + 1]
             ELSE (href :> 1) @@ counts

\* element.enter(node, parentNode): the tree and the registry afterwards
ElementEnterFn(t, refs, counts, onlyUnique, node, parentNode) ==
    LET attributes == t[node].attributes
        href == "#" \o attributes["id"]
        count == counts[href]
        stripped ==
            IF onlyUnique = FALSE /\ count > 1
            THEN [t EXCEPT ![node].attributes =
                     [n \in (DOMAIN attributes) \ {"id"} |-> attributes[n]]]
            ELSE t
        detached ==
            IF onlyUnique = TRUE /\ count = 1
            THEN [stripped EXCEPT ![parentNode].children = Without(@, node)]
            ELSE stripped
    IN  IF "id" \notin DOMAIN attributes
        THEN [tree |-> t, referencedElements |-> refs]
        ELSE IF href \notin DOMAIN counts
        THEN [tree |-> t, referencedElements |-> refs]
        ELSE [tree |-> detached,
              referencedElements |->
                  IF href \in DOMAIN refs
                  THEN [refs EXCEPT ![href] = node]
                  ELSE (href :> node) @@ refs]

\* element.exit(node, parentNode): the tree afterwards
ElementExitFn(t, onlyUnique, node, parentNode) ==
    IF /\ t[node].name = "defs"
       /\ (onlyUnique = FALSE \/ Len(t[node].children) = 0)
    THEN [t EXCEPT ![parentNode].children = Without(@, node)]
    ELSE t

\* root.exit: the attributes of the referenced element after the merge
MergeAttributes(onto, from) ==
    LET merged == (DOMAIN from) \ {"x", "y", "xlink:href", "href"}
    IN  [n \in (DOMAIN onto) \cup merged |->
            IF n \in merged THEN from[n] ELSE onto[n]]

\* a variant that wraps for either coordinate
AttrValueEitherAxis(attributes) ==
    IF "x" \in DOMAIN attributes /\ "y" \in DOMAIN attributes
    THEN << "translate(" \o attributes["x"] \o ", "
                \o attributes["y"] \o ")" >>
    ELSE IF "x" \in DOMAIN attributes
    THEN << "translate(" \o attributes["x"] \o ")" >>
    ELSE IF "y" \in DOMAIN attributes
    THEN << "translate(0, " \o attributes["y"] \o ")" >>
    ELSE << >>

\* root.exit: attrValue, << >> when it stays null
AttrValue(attributes) ==
    IF "x" \in DOMAIN attributes /\ "y" \in DOMAIN attributes
    THEN << "translate(" \o attributes["x"] \o ", "
                \o attributes["y"] \o ")" >>
    ELSE IF "x" \in DOMAIN attributes
    THEN << "translate(" \o attributes["x"] \o ")" >>
    ELSE << >>

\* a replacement that is put after the other children
MoveToEnd(children, use, replacement) ==
    SelectSeq(children, LAMBDA child : child # use) \o << replacement >>

\* root.exit: useParentNode.children.map(child => child === use ?
\* replacement : child)
MapChildren(children, use, replacement) ==
    [i \in 1..Len(children) |->
        IF children[i] = use THEN replacement ELSE children[i]]

\* root.exit: the loop over uses from the k-th on; yields the tree and the
\* replacement of every use the map found among the children of its parent
RECURSIVE RootExitFn(_, _, _, _, _, _, _)
RootExitFn(t, done, us, counts, refs, onlyUnique, k) ==
    IF k > Len(us) THEN [tree |-> t, replaced |-> done]
    ELSE
      LET use == us[k].node
          useParentNode == us[k].parentNode
          href == Href(t[use].attributes)
          count == IF href \in DOMAIN counts THEN counts[href] ELSE 0
      IN  IF \/ href = ""
             \/ (onlyUnique = TRUE /\ count > 1)
             \/ href \notin DOMAIN refs
          THEN RootExitFn(t, done, us, counts, refs, onlyUnique, k + 1)
          ELSE
            LET referenced == refs[href]
                merged ==
                    [t EXCEPT ![referenced].attributes =
                        MergeAttributes(@, t[use].attributes)]
                attrValue == AttrValue(merged[use].attributes)
                g == Len(merged) + 1
                wrapped ==
                    IF attrValue # << >>
                    THEN Append(merged,
                                Element("g", "transform" :> attrValue[1],
                                        << referenced >>))
                    ELSE merged
                replacement == IF attrValue # << >> THEN g ELSE referenced
                children == wrapped[useParentNode].children
                mapped ==
                    [wrapped EXCEPT ![useParentNode].children =
                        MapChildren(children, use, replacement)]
                placed ==
                    IF \E i \in 1..Len(children) : children[i] = use
                    THEN (use :> replacement) @@ done
                    ELSE done
            IN  RootExitFn(mapped, placed, us, counts, refs, onlyUnique,
                           k + 1)

(* The documents the plugin is run on. *)

IdA == "id" :> "a"
IdB == "id" :> "b"
Blue == "fill" :> "blue"

\* the attribute sets of a use that references href
UseAttributes(href) ==
    { "href" :> href,
      "xlink:href" :> href,
      "href" :> href @@ "x" :> "1",
      "href" :> href @@ "x" :> "1" @@ "y" :> "2",
      "href" :> href @@ "y" :> "2",
      "href" :> href @@ "fill" :> "red",
      "xlink:href" :> href @@ "x" :> "3" @@ "fill" :> "green" }

SecondUseAttributes(href) ==
    { "href" :> href,
      "href" :> href @@ "fill" :> "green",
      "href" :> href @@ "x" :> "3" @@ "y" :> "4" @@ "fill" :> "red" }

Use(attributes) == Element("use", attributes, << >>)

EmptyDocument == << Root(<< >>) >>

PlainDocument ==
    << Root(<< 2 >>), Element("svg", << >>, << 3 >>),
       Element("path", Blue, << >>) >>

\* <svg><defs><path id="a"/></defs><use href="#a"/></svg>
UniqueInDefs(u) ==
    << Root(<< 2 >>), Element("svg", << >>, << 3, 5 >>),
       Element("defs", << >>, << 4 >>), Element("path", IdA @@ Blue, << >>),
       Use(u) >>

\* <svg><defs><path id="a"/></defs><use href="#a"/><use href="#a"/></svg>
SharedInDefs(u1, u2) ==
    << Root(<< 2 >>), Element("svg", << >>, << 3, 5, 6 >>),
       Element("defs", << >>, << 4 >>), Element("path", IdA @@ Blue, << >>),
       Use(u1), Use(u2) >>

\* <svg><g id="a"><path id="b"/></g><use href="#a"/><use href="#b"/></svg>
NestedDefinition(u) ==
    << Root(<< 2 >>), Element("svg", << >>, << 3, 5, 6 >>),
       Element("g", IdA, << 4 >>), Element("path", IdB, << >>),
       Use("href" :> "#a"), Use(u) >>

\* <svg><use href="#c"/><use/><use href=""/><path id="a"/></svg>
BrokenReferences(u) ==
    << Root(<< 2 >>), Element("svg", << >>, << 3, 4, 5, 6 >>),
       Use(u), Use("fill" :> "red"), Use("href" :> "" @@ "x" :> "1"),
       Element("path", IdA, << >>) >>

\* <svg><defs><use href="#c"/><path id="a"/></defs></svg>
BrokenInDefs ==
    << Root(<< 2 >>), Element("svg", << >>, << 3 >>),
       Element("defs", << >>, << 4, 5 >>),
       Use("href" :> "#c"), Element("path", IdA, << >>) >>

\* <?xml?><svg><defs><path id="a"/></defs><use href="#a"/></svg>
WithProlog(u) ==
    << Root(<< 2, 3 >>), Instruction, Element("svg", << >>, << 4, 6 >>),
       Element("defs", << >>, << 5 >>), Element("path", IdA @@ Blue, << >>),
       Use(u) >>

\* <svg><path id="a"/><g><rect/><use href="#a"/><circle/></g></svg>
TopLevelTarget(u) ==
    << Root(<< 2 >>), Element("svg", << >>, << 3, 4 >>),
       Element("path", IdA @@ Blue, << >>),
       Element("g", << >>, << 5, 6, 7 >>),
       Element("rect", << >>, << >>), Use(u),
       Element("circle", << >>, << >>) >>

\* <svg><defs><path id="a"/><linearGradient id="g"/></defs>
\*      <use href="#a"/></svg>
MixedDefs(u) ==
    << Root(<< 2 >>), Element("svg", << >>, << 3, 6 >>),
       Element("defs", << >>, << 4, 5 >>), Element("path", IdA, << >>),
       Element("linearGradient", "id" :> "g", << >>), Use(u) >>

\* <svg><path id="a"/><rect id="a"/><use href="#a"/></svg>
DuplicateIds(u) ==
    << Root(<< 2 >>), Element("svg", << >>, << 3, 4, 5 >>),
       Element("path", IdA @@ Blue, << >>), Element("rect", IdA, << >>),
       Use(u) >>

\* <svg><g id="a"><use href="#a"/><path id="b"/></g>
\*      <use href="#b"/><use href="#b"/></svg>
SelfReference ==
    << Root(<< 2 >>), Element("svg", << >>, << 3, 6, 7 >>),
       Element("g", IdA, << 4, 5 >>), Use("href" :> "#a"),
       Element("path", IdB, << >>),
       Use("href" :> "#b" @@ "fill" :> "red"), Use("href" :> "#b") >>

\* <svg><path id="b"/><use id="t" href="#b"/><use href="#t"/></svg>
UseChain(u) ==
    << Root(<< 2 >>), Element("svg", << >>, << 3, 4, 5 >>),
       Element("path", IdB, << >>),
       Use("id" :> "t" @@ "href" :> "#b"), Use(u) >>

\* <svg><use href="#t"/><use id="t" href="#b"/><path id="b"/></svg>
UseChainReversed(u) ==
    << Root(<< 2 >>), Element("svg", << >>, << 3, 4, 5 >>),
       Use(u), Use("id" :> "t" @@ "href" :> "#b"),
       Element("path", IdB, << >>) >>

\* <svg><path id="b"/><use id="t" href="#b"/><use href="#t"/>
\*      <use href="#b"/></svg>
UseChainShared(u) ==
    << Root(<< 2 >>), Element("svg", << >>, << 3, 4, 5, 6 >>),
       Element("path", IdB, << >>),
       Use("id" :> "t" @@ "href" :> "#b"), Use(u), Use("href" :> "#b") >>

\* <?xml?><svg><defs><path id="a"/></defs><use href="#a"/>
\*              <use href="#a"/></svg>
SharedAfterProlog ==
    << Root(<< 2, 3 >>), Instruction, Element("svg", << >>, << 4, 6, 7 >>),
       Element("defs", << >>, << 5 >>), Element("path", IdA @@ Blue, << >>),
       Use("href" :> "#a"), Use("href" :> "#a") >>

Documents ==
    { EmptyDocument, PlainDocument, BrokenInDefs, SelfReference,
      SharedAfterProlog }
    \cup { UniqueInDefs(u) : u \in UseAttributes("#a") }
    \cup { SharedInDefs(u1, u2) :
             u1 \in UseAttributes("#a"), u2 \in SecondUseAttributes("#a") }
    \cup { NestedDefinition(u) : u \in UseAttributes("#b") }
    \cup { BrokenReferences(u) : u \in UseAttributes("#c") }
    \cup { WithProlog(u) : u \in UseAttributes("#a") }
    \cup { TopLevelTarget(u) : u \in UseAttributes("#a") }
    \cup { MixedDefs(u) : u \in UseAttributes("#a") }
    \cup { DuplicateIds(u) : u \in UseAttributes("#a") }
    \cup { UseChain(u) : u \in UseAttributes("#t") }
    \cup { UseChainReversed(u) : u \in UseAttributes("#t") }
    \cup { UseChainShared(u) : u \in UseAttributes("#t") }

(* svgo's invocation of the plugin: fn(root, params), then visit(root). *)

Top == stack[Len(stack)]

\* fn(root, params): the index build, which reads root.children[0].children
\* and so raises a TypeError on a root without children; then visit(root)
InlineStart ==
    /\ ipc = "parsed"
    /\ IF Len(tree[RootNode].children) = 0
       THEN /\ ipc' = "raised"
            /\ UNCHANGED <<uses, useCounts, stack>>
       ELSE LET us == IndexUses(tree)
            IN  /\ uses' = us
                /\ useCounts' = IndexCounts(tree, us, Len(us))
                /\ stack' = << Frame(RootNode, 0, tree[RootNode].children) >>
                /\ ipc' = "visiting"
    /\ UNCHANGED <<idVars, tempVars, src, hcall, pairVars, assetVars, rerunVars, raceVars, batchVars, spriteVars, fontVars, input, tree, params,
                   referencedElements, replaced>>

\* visit(child, visitor, node) of an element: element.enter, then its
\* children if it is still among the children of its parent
VisitElement ==
    /\ ipc = "visiting"
    /\ Top.next <= Len(Top.children)
    /\ LET node == Top.children[Top.next]
           e == ElementEnterFn(tree, referencedElements, useCounts,
                               params.onlyUnique, node, Top.node)
           attached ==
               \E i \in 1..Len(e.tree[Top.node].children) :
                   e.tree[Top.node].children[i] = node
       IN  /\ tree[node].type = "element"
           /\ tree' = e.tree
           /\ referencedElements' = e.referencedElements
           /\ stack' = [stack EXCEPT ![Len(stack)].next = @ + 1]
                          \o << Frame(node, Top.node,
                                      IF attached THEN e.tree[node].children
                                      ELSE << >>) >>
    /\ UNCHANGED <<idVars, tempVars, src, hcall, pairVars, assetVars, rerunVars, raceVars, batchVars, spriteVars, fontVars, input, params, uses,
                   useCounts, replaced, ipc>>

\* visit() of a node the visitor has no callbacks for
VisitOther ==
    /\ ipc = "visiting"
    /\ Top.next <= Len(Top.children)
    /\ tree[Top.children[Top.next]].type \notin {"element", "root"}
    /\ stack' = [stack EXCEPT ![Len(stack)].next = @ + 1]
    /\ UNCHANGED <<idVars, tempVars, src, hcall, pairVars, assetVars, rerunVars, raceVars, batchVars, spriteVars, fontVars, input, tree, params,
                   uses, useCounts, referencedElements, replaced, ipc>>

\* the end of visit() of an element: element.exit
LeaveElement ==
    /\ ipc = "visiting"
    /\ Top.next > Len(Top.children)
    /\ Top.node # RootNode
    /\ tree' = ElementExitFn(tree, params.onlyUnique, Top.node,
                             Top.parentNode)
    /\ stack' = SubSeq(stack, 1, Len(stack) - 1)
    /\ UNCHANGED <<idVars, tempVars, src, hcall, pairVars, assetVars, rerunVars, raceVars, batchVars, spriteVars, fontVars, input, params, uses,
                   useCounts, referencedElements, replaced, ipc>>

\* the end of visit() of the root: root.exit
LeaveRoot ==
    /\ ipc = "visiting"
    /\ Top.next > Len(Top.children)
    /\ Top.node = RootNode
    /\ LET r == RootExitFn(tree, << >>, uses, useCounts, referencedElements,
                           params.onlyUnique, 1)
       IN  /\ tree' = r.tree
           /\ replaced' = r.replaced
    /\ stack' = << >>
    /\ ipc' = "done"
    /\ UNCHANGED <<idVars, tempVars, src, hcall, pairVars, assetVars, rerunVars, raceVars, batchVars, spriteVars, fontVars, input, params, uses,
                   useCounts, referencedElements>>

InlineInit ==
    /\ src = << >>
    /\ HashIdle
    /\ SpriteIdle
    /\ FontIdle
    /\ input \in Documents
    /\ tree = input
    /\ params \in { [onlyUnique |-> b] : b \in BOOLEAN }
    /\ uses = << >>
    /\ useCounts = << >>
    /\ referencedElements = << >>
    /\ replaced = << >>
    /\ stack = << >>
    /\ ipc = "parsed"
    /\ BatchIdle
    /\ RaceIdle
    /\ AssetIdle
    /\ RerunIdle
    /\ TempIdle
    /\ IdIdle
    /\ PairIdle

InlineNext ==
    \/ InlineStart
    \/ VisitElement
    \/ VisitOther
    \/ LeaveElement
    \/ LeaveRoot

SpecInline == InlineInit /\ [][InlineNext]_vars

(* What the claims about the transform speak of. *)

ElementsOf(t) == { n \in DOMAIN t : t[n].type = "element" }
UsesOf(t) == { n \in ElementsOf(t) : t[n].name = "use" }

\* the nodes reachable from the root through children lists
RECURSIVE ReachFrom(_, _)
ReachFrom(t, S) ==
    LET N == S \cup UNION { Range(t[n].children) : n \in S }
    IN  IF N = S THEN S ELSE ReachFrom(t, N)

InTree(t, n) == n \in ReachFrom(t, { RootNode })

\* how often node n occurs in the children lists of the tree
Occurrences(t, n) ==
    Cardinality({ pk \in ReachFrom(t, { RootNode }) \X (1..Len(t)) :
                    /\ pk[2] <= Len(t[pk[1]].children)
                    /\ t[pk[1]].children[pk[2]] = n })

\* the parent of a node of the input document
ParentOf(n) == CHOOSE p \in DOMAIN input : n \in Range(input[p].children)

\* the elements of the input that carry the id a fragment names
Carriers(href) ==
    { n \in ElementsOf(input) :
        /\ "id" \in DOMAIN input[n].attributes
        /\ "#" \o input[n].attributes["id"] = href }

\* the use elements of the input that reference a fragment
Referrers(href) ==
    { u \in UsesOf(input) : Href(input[u].attributes) = href }

\* the nodes now in the child list of the input parent of n at the place n
\* had: no sibling that stood before n stands after them, and none that
\* stood after n stands before them
AtPlaceOf(n) ==
    LET p == ParentOf(n)
        before == input[p].children
        now == tree[p].children
        pos == CHOOSE i \in 1..Len(before) : before[i] = n
    IN  { now[k] : k \in
            { k \in 1..Len(now) :
                \A j \in 1..Len(now) :
                    /\ j < k => \A i \in (pos + 1)..Len(before) :
                                   now[j] # before[i]
                    /\ j > k => \A i \in 1..(pos - 1) :
                                   now[j] # before[i] } }

\* node r is target t, or a group made by the transform that wraps only t
HoldsTarget(r, t) ==
    \/ r = t
    \/ /\ r \notin DOMAIN input
       /\ tree[r].children = << t >>

\* the use elements with a fragment that exactly one element carries and
\* no other use references
UniquelyReferencing ==
    { u \in UsesOf(input) :
        LET href == Href(input[u].attributes)
        IN  /\ href # ""
            /\ Cardinality(Carriers(href)) = 1
            /\ Referrers(href) = { u } }

\* C5: after the transform, in either mode, a use that alone references the
\* one element carrying its fragment's id is out of the tree, the referenced
\* element (or the group wrapping it) stands at the place of the use in its
\* parent's child list, and a defs whose only child was that element is out
\* of the tree.
InliningRoundTrip ==
    ipc = "done" =>
        \A u \in UniquelyReferencing :
            LET t == CHOOSE n \in Carriers(Href(input[u].attributes)) : TRUE
            IN  /\ ~InTree(tree, u)
                /\ \E r \in AtPlaceOf(u) : HoldsTarget(r, t)
                /\ \A d \in ElementsOf(input) :
                      (input[d].name = "defs" /\ input[d].children = << t >>)
                          => ~InTree(tree, d)

\* C6: the replacement of an inlined use is a new g with the single
\* attribute transform = translate(x, y) and the target as its only child
\* when the use has x and y, such a g with translate(x) when it has x and
\* no y, and the target itself otherwise; it stands in the child list of
\* the use's parent unless it is a use that root.exit replaced in turn.
TransformComposition ==
    ipc = "done" =>
        \A u \in DOMAIN replaced :
            LET a == input[u].attributes
                r == replaced[u]
                t == referencedElements[Href(a)]
                wraps(value) ==
                    /\ r \notin DOMAIN input
                    /\ tree[r].type = "element"
                    /\ tree[r].name = "g"
                    /\ DOMAIN tree[r].attributes = { "transform" }
                    /\ tree[r].attributes["transform"] = value
                    /\ tree[r].children = << t >>
            IN  /\ IF "x" \in DOMAIN a /\ "y" \in DOMAIN a
                   THEN wraps("translate(" \o a["x"] \o ", " \o a["y"]
                                  \o ")")
                   ELSE IF "x" \in DOMAIN a
                   THEN wraps("translate(" \o a["x"] \o ")")
                   ELSE r = t
                /\ r \in Range(tree[ParentOf(u)].children)
                      \/ r \in DOMAIN replaced

\* C6 witness: the transform is done and has replaced a use with x and y
\* by a new g around the target, and a use with y and no x by the target
\* itself.
TransformCompositionWitness ==
    /\ ipc = "done"
    /\ \E u \in DOMAIN replaced :
          /\ {"x", "y"} \subseteq DOMAIN input[u].attributes
          /\ replaced[u] \notin DOMAIN input
          /\ tree[replaced[u]].children =
                << referencedElements[Href(input[u].attributes)] >>
    /\ \E u \in DOMAIN replaced :
          /\ "y" \in DOMAIN input[u].attributes
          /\ "x" \notin DOMAIN input[u].attributes
          /\ replaced[u] = referencedElements[Href(input[u].attributes)]

\* C7: in UniqueOnly mode an element whose id two or more uses reference
\* keeps the id and occurs exactly once in the tree, each of those uses is
\* in the tree with the attributes it had, and a defs holding the element
\* is still a child of its parent.
SharedReferencePreservation ==
    (ipc = "done" /\ params.onlyUnique) =>
        \A e \in ElementsOf(input) :
            LET a == input[e].attributes
                href == "#" \o a["id"]
            IN  ("id" \in DOMAIN a /\ Cardinality(Referrers(href)) >= 2) =>
                    /\ "id" \in DOMAIN tree[e].attributes
                    /\ tree[e].attributes["id"] = a["id"]
                    /\ Occurrences(tree, e) = 1
                    /\ \A u \in Referrers(href) :
                          /\ InTree(tree, u)
                          /\ tree[u].attributes = input[u].attributes
                    /\ \A d \in ElementsOf(input) :
                          (input[d].name = "defs"
                             /\ e \in Range(input[d].children))
                              => d \in Range(tree[ParentOf(d)].children)

\* C8: the element inlined at the place of a use carries every attribute
\* of that use other than x, y, href and xlink:href, with the value the
\* use gave it, also when other uses reference the same element.
AttributeMerge ==
    ipc = "done" =>
        \A u \in DOMAIN replaced :
            LET a == input[u].attributes
                t == referencedElements[Href(a)]
            IN  \A n \in (DOMAIN a) \ {"x", "y", "href", "xlink:href"} :
                    /\ n \in DOMAIN tree[t].attributes
                    /\ tree[t].attributes[n] = a[n]

\* the use elements without href and xlink:href, or with a fragment no
\* element's id matches
BrokenUses ==
    { u \in UsesOf(input) : Carriers(Href(input[u].attributes)) = {} }

\* C9: the transform of a document raises nothing, and a use with no
\* reference or with a fragment that matches no id is afterwards in the
\* tree, at its place in its parent's child list, with the attributes it
\* had.
BrokenReferencesTolerated ==
    /\ (ipc = "raised") => BrokenUses = {}
    /\ (ipc = "done") =>
          \A u \in BrokenUses :
              /\ InTree(tree, u)
              /\ u \in AtPlaceOf(u)
              /\ tree[u].attributes = input[u].attributes

\* what root.exit may have left where node c stood: c itself when it was
\* not replaced, else its replacement or what replaced that in turn
Successors(rep, c) ==
    IF c \notin DOMAIN rep THEN { c }
    ELSE { rep[c] } \cup
         (IF rep[c] \in DOMAIN rep THEN { rep[rep[c]] } ELSE {})

\* the elements of the input whose id some use references
Registered ==
    { n \in ElementsOf(input) :
        /\ "id" \in DOMAIN input[n].attributes
        /\ "#" \o input[n].attributes["id"] \in DOMAIN useCounts }

\* C20: root.exit leaves every child list as long as it was, with the
\* replacement of a use at the index of the use and every other child
\* where it was; and an element that is no use, no defs and carries no
\* referenced id has after the transform the attributes it had before.
ReplacementFrame ==
    /\ [][(ipc = "visiting" /\ ipc' = "done") =>
            \A p \in DOMAIN tree :
                /\ Len(tree'[p].children) = Len(tree[p].children)
                /\ \A i \in 1..Len(tree[p].children) :
                      tree'[p].children[i]
                          \in Successors(replaced', tree[p].children[i])]_vars
    /\ [](ipc = "done" =>
            \A n \in ElementsOf(input) \ Registered :
                input[n].name \notin { "use", "defs" } =>
                    tree[n].attributes = input[n].attributes)

\* C20 witness: the transform is done; a use that stood between two
\* siblings is replaced, its replacement stands between them, and they
\* have the attributes they had.
ReplacementFrameWitness ==
    /\ ipc = "done"
    /\ \E u \in DOMAIN replaced :
          LET now == tree[ParentOf(u)].children
          IN  /\ Len(now) = 3
              /\ now[2] = replaced[u]
              /\ now[1] # now[2]
              /\ now[1] = input[ParentOf(u)].children[1]
              /\ now[3] = input[ParentOf(u)].children[3]
              /\ tree[now[1]].attributes = input[now[1]].attributes
              /\ input[now[1]].name = "rect"

\* the elements of the input whose id two or more uses reference
SharedDefinitions ==
    { e \in ElementsOf(input) :
        /\ "id" \in DOMAIN input[e].attributes
        /\ Cardinality(Referrers("#" \o input[e].attributes["id"])) > 1 }

\* C21: in FlattenShared mode (onlyUnique = false), after the transform an
\* element whose id two or more uses reference has no id attribute, each
\* of those uses has the element (or the group wrapping it) at its place
\* in its parent's child list, and no defs is a child of its parent,
\* whether or not it still holds children.
FlattenShared ==
    (ipc = "done" /\ params.onlyUnique = FALSE) =>
        /\ \A e \in SharedDefinitions :
              /\ "id" \notin DOMAIN tree[e].attributes
              /\ \A u \in Referrers("#" \o input[e].attributes["id"]) :
                    \E r \in AtPlaceOf(u) : HoldsTarget(r, e)
        /\ \A d \in ElementsOf(input) :
              input[d].name = "defs" =>
                  d \notin Range(tree[ParentOf(d)].children)

\* the elements of the input that carry an id exactly one use references:
\* those element.enter detaches in UniqueOnly mode
SingleReferenced ==
    { e \in ElementsOf(input) :
        /\ "id" \in DOMAIN input[e].attributes
        /\ "#" \o input[e].attributes["id"] \in DOMAIN useCounts
        /\ useCounts["#" \o input[e].attributes["id"]] = 1 }

\* C22: in UniqueOnly mode, after the transform every element carrying an
\* id that exactly one use references occurs exactly once in the tree
\* reachable from the root, and the only elements of the input that are
\* not in that tree are the uses root.exit replaced and the defs.
RelocationWithoutLoss ==
    (ipc = "done" /\ params.onlyUnique = TRUE) =>
        /\ \A e \in SingleReferenced : Occurrences(tree, e) = 1
        /\ \A n \in ElementsOf(input) :
              ~InTree(tree, n) =>
                  \/ n \in DOMAIN replaced
                  \/ input[n].name = "defs"

\* C23: after the transform, in either mode, every node reachable from
\* the root occurs at most once in the child lists of the tree and is not
\* among its own descendants, and the root has one element child.
OutputIsTree ==
    ipc = "done" =>
        /\ \A n \in ReachFrom(tree, { RootNode }) :
              /\ Occurrences(tree, n) <= 1
              /\ n \notin ReachFrom(tree, Range(tree[n].children))
        /\ Cardinality({ k \in 1..Len(tree[RootNode].children) :
               tree[tree[RootNode].children[k]].type = "element" }) = 1

\* C24: when root.exit runs, the registry has an entry for the fragment
\* of every id that an element of the document carries and a use
\* references, so that root.exit skips no use whose fragment matches an id
\* of the document as unresolved.
RegistryCompleteness ==
    ipc = "done" =>
        \A u \in UsesOf(input) :
            LET href == Href(input[u].attributes)
            IN  Carriers(href) # {} => href \in DOMAIN referencedElements

\* the pairs << U, T >> of uses of the input where U references the id of
\* T alone and T references the id of an element of the input
ChainedUses ==
    { ut \in UsesOf(input) \X UsesOf(input) :
        /\ Carriers(Href(input[ut[1]].attributes)) = { ut[2] }
        /\ Carriers(Href(input[ut[2]].attributes)) # {} }

\* C25: where use U references use T and T references an element B,
\* root.exit leaves T (or the group wrapping T) at the index U had in its
\* parent's child list, and T is afterwards still a use with the
\* reference it had.
OneLevelResolution ==
    [][(ipc = "visiting" /\ ipc' = "done") =>
          \A ut \in ChainedUses :
              LET U == ut[1]
                  T == ut[2]
              IN  U \in DOMAIN replaced' =>
                    /\ \A p \in DOMAIN tree :
                          \A i \in 1..Len(tree[p].children) :
                              tree[p].children[i] = U =>
                                  LET r == tree'[p].children[i]
                                  IN  \/ r = T
                                      \/ /\ r \notin DOMAIN input
                                         /\ tree'[r].children = << T >>
                    /\ tree'[T].name = "use"
                    /\ Href(tree'[T].attributes)
                          = Href(input[T].attributes)]_vars

----------------------------------------------------------------------------
(* MultiSpriteManager.generateAll(): SpecBatch.  The configurations are    *)
(* run one after the other, each by a SpriteGenerator of its own; while a  *)
(* configuration runs, sg, src, sdist, spc and srun are its generator, its *)
(* source directory and the directory its dist resolves to, and dists      *)
(* holds that directory again once the run is over.                        *)

DistDirs == { "d1", "d2" }
ConfigNames == << "c1", "c2", "c3" >>
BatchSpriteNames == { << "s" >>, << "x", "s" >> }
BatchHashLength == 3

\* the configurations that may stand at position i of a batch
ConfigsAt(i) ==
    { [name |-> ConfigNames[i], spriteName |-> n, dist |-> d] :
        n \in BatchSpriteNames, d \in DistDirs }

Batches ==
    UNION { { b \in [1..n -> UNION { ConfigsAt(i) : i \in 1..n }] :
                \A i \in 1..n : b[i] \in ConfigsAt(i) }
            : n \in 1..MaxConfigs }

\* what the source directory of a configuration may hold
BatchSrcStates == { f \in SrcStates : DOMAIN f \subseteq { PathA } }

\* generateAll(): results = [], allSuccess = true
BatchStart ==
    /\ bpc = "idle"
    /\ results' = << >>
    /\ allSuccess' = TRUE
    /\ bi' = 1
    /\ bpc' = "looping"
    /\ UNCHANGED <<idVars, tempVars, src, hcall, pairVars, assetVars, rerunVars, raceVars, spriteVars, fontVars, inlineVars,
                   configurations, dists, attempted>>

\* the loop body up to generator.generate(): new SpriteGenerator(...)
BatchConstruct ==
    /\ bpc = "looping"
    /\ bi <= Len(configurations)
    /\ LET config == configurations[bi]
       IN  /\ sg' = NewSpriteGenerator(config.spriteName, BatchHashLength,
                                       TRUE, FALSE)
           /\ sdist' = dists[config.dist]
           /\ attempted' = Append(attempted, config.name)
    /\ src' \in BatchSrcStates
    /\ spc' = "idle"
    /\ srun' = NoRun
    /\ bpc' = "running"
    /\ UNCHANGED <<idVars, tempVars, hcall, pairVars, assetVars, rerunVars, raceVars, fontVars, inlineVars, configurations, dists,
                   results, allSuccess, bi>>

\* await generator.generate()
BatchGenerate ==
    /\ bpc = "running"
    /\ \/ spc = "idle" /\ SGStart
       \/ SGBuild
       \/ SGPurge
       \/ SGWriteFile
       \/ SGFinish

\* the rest of the loop body: updateComponents and results.push on success,
\* the catch branch on an error of generate() or of updateComponents
BatchCollect ==
    /\ bpc = "running"
    /\ spc \in {"returned", "failed"}
    /\ \E updated \in BOOLEAN :
          LET config == configurations[bi]
              success == spc = "returned" /\ updated
              error == IF spc = "failed" THEN srun.failedAt
                       ELSE IF ~updated THEN "updateComponents"
                       ELSE ""
          IN  /\ results' =
                    Append(results,
                           [name |-> config.name, success |-> success,
                            spritePath |-> IF success THEN srun.spriteFile
                                           ELSE << >>,
                            error |-> error])
              /\ allSuccess' = (allSuccess /\ success)
              /\ dists' = [dists EXCEPT ![config.dist] = sdist]
    /\ bi' = bi + 1
    /\ bpc' = "looping"
    /\ src' = << >>
    /\ sg' = << >>
    /\ sdist' = << >>
    /\ spc' = "off"
    /\ srun' = NoRun
    /\ UNCHANGED <<idVars, tempVars, hcall, pairVars, assetVars, rerunVars, raceVars, fontVars, inlineVars, configurations, attempted>>

\* return { success: allSuccess, results }
BatchReturn ==
    /\ bpc = "looping"
    /\ bi > Len(configurations)
    /\ bpc' = "returned"
    /\ UNCHANGED <<idVars, tempVars, src, hcall, pairVars, assetVars, rerunVars, raceVars, spriteVars, fontVars, inlineVars,
                   configurations, dists, results, allSuccess, bi,
                   attempted>>

BatchInit ==
    /\ src = << >>
    /\ HashIdle
    /\ SpriteIdle
    /\ FontIdle
    /\ InlineIdle
    /\ configurations \in Batches
    /\ dists = [d \in DistDirs |-> Directory({})]
    /\ results = << >>
    /\ allSuccess = TRUE
    /\ bi = 0
    /\ attempted = << >>
    /\ bpc = "idle"
    /\ RaceIdle
    /\ AssetIdle
    /\ RerunIdle
    /\ TempIdle
    /\ IdIdle
    /\ PairIdle

BatchNext ==
    \/ BatchStart
    \/ BatchConstruct
    \/ BatchGenerate
    \/ BatchCollect
    \/ BatchReturn

SpecBatch == BatchInit /\ [][BatchNext]_vars

\* generateAll has tried every configuration once, in order, and reports
\* one result for each, in order, with the overall success their conjunction
BatchReported ==
    /\ attempted = [i \in 1..Len(configurations) |-> configurations[i].name]
    /\ Len(results) = Len(configurations)
    /\ \A i \in 1..Len(results) :
          /\ results[i].name = configurations[i].name
          /\ results[i].success \/ results[i].error # ""
    /\ allSuccess = \A i \in 1..Len(results) : results[i].success

\* the sprite a successful configuration wrote is in its directory, unless
\* a later configuration has the same spriteName and directory
BatchArtifactsKept ==
    \A i \in 1..Len(results) :
        (/\ results[i].success
         /\ \A j \in (i + 1)..Len(results) :
               \/ configurations[j].spriteName # configurations[i].spriteName
               \/ configurations[j].dist # configurations[i].dist)
            => results[i].spritePath \in dists[configurations[i].dist].files

\* C12: when generateAll has returned, every configuration was attempted
\* exactly once and in order whatever failed before it, there is one result
\* per configuration in that order, success is true overall exactly when
\* every result is a success, a failed configuration has a result with an
\* error message, and the artifacts the other configurations wrote are
\* still in their directories.
BatchIsolation ==
    bpc = "returned" => (BatchReported /\ BatchArtifactsKept)

----------------------------------------------------------------------------
(* Two processes in writeSpriteFile on one directory: SpecRace.            *)
(* writeSpriteFile makes only synchronous calls, so two generate() of one  *)
(* Node process cannot interleave inside it; two processes (two runs of    *)
(* the command line tool) can, between any two file-system calls.          *)

Procs == { "A", "B" }

\* the hashes of the two runs
RaceHashes == [p \in Procs |-> IF p = "A" THEN << "a", "1" >>
                               ELSE << "b", "2" >>]

\* a purge that finds nothing to unlink
MatchedNone(existingFiles, spriteName) == {}

\* cleanupOldSprites: the files spritePattern.test accepts
Matched(existingFiles, spriteName) ==
    { f \in existingFiles : SpritePatternTest(spriteName, f) }

Step(p, step) == events' = Append(events, [proc |-> p, step |-> step])

\* cleanupOldSprites: existsSync and readdirSync
RList(p) ==
    /\ racers[p].pc = "compiled"
    /\ racers' = [racers EXCEPT
                    ![p].pc = IF sdist.exists THEN "listed" ELSE "purged",
                    ![p].existingFiles = sdist.files]
    /\ Step(p, "list")
    /\ UNCHANGED <<idVars, tempVars, src, hcall, pairVars, assetVars, rerunVars, spriteVars, fontVars, inlineVars, batchVars>>

\* cleanupOldSprites: the unlinkSync calls; one throws when its file is
\* gone (or for another reason), after some of the files are unlinked
RUnlink(p) ==
    /\ racers[p].pc = "listed"
    /\ LET old == Matched(racers[p].existingFiles,
                          racers[p].generator.spriteName)
       IN  \/ /\ old \subseteq sdist.files
              /\ sdist' = [sdist EXCEPT !.files = @ \ old]
              /\ racers' = [racers EXCEPT ![p].pc = "purged"]
           \/ /\ \E gone \in SUBSET (old \cap sdist.files) :
                    /\ gone # old
                    /\ sdist' = [sdist EXCEPT !.files = @ \ gone]
              /\ racers' = [racers EXCEPT ![p].pc = "failed"]
    /\ Step(p, "unlink")
    /\ UNCHANGED <<idVars, tempVars, src, hcall, sg, spc, srun, pairVars, assetVars, rerunVars, fontVars, inlineVars,
                   batchVars>>

\* writeSpriteFile: mkdirSync and writeFileSync, either of which may throw
RWrite(p) ==
    /\ racers[p].pc = "purged"
    /\ \/ /\ sdist' = Directory(sdist.files
                                  \cup { SpriteFileName(racers[p].generator) })
          /\ racers' = [racers EXCEPT ![p].pc = "written"]
       \/ /\ racers' = [racers EXCEPT ![p].pc = "failed"]
          /\ UNCHANGED sdist
    /\ Step(p, "write")
    /\ UNCHANGED <<idVars, tempVars, src, hcall, sg, spc, srun, pairVars, assetVars, rerunVars, fontVars, inlineVars,
                   batchVars>>

RaceInit ==
    /\ src = << >>
    /\ HashIdle
    /\ FontIdle
    /\ InlineIdle
    /\ BatchIdle
    /\ AssetIdle
    /\ RerunIdle
    /\ TempIdle
    /\ IdIdle
    /\ PairIdle
    /\ sg = << >>
    /\ spc = "off"
    /\ srun = NoRun
    /\ \E name \in SpriteNames :
          /\ racers =
                [p \in Procs |->
                    [generator |->
                        [NewSpriteGenerator(name, DefaultHashLength, TRUE,
                                            FALSE)
                            EXCEPT !.contentHash = RaceHashes[p]],
                     pc |-> "compiled", existingFiles |-> {}]]
          /\ sdist \in { NoDirectory, Directory({}),
                         Directory(LeftoverFiles(name)) }
    /\ events = << >>

RaceNext == \E p \in Procs : RList(p) \/ RUnlink(p) \/ RWrite(p)

SpecRace == RaceInit /\ [][RaceNext]_vars

\* both runs are over
Finished == \A p \in Procs : racers[p].pc \in {"written", "failed"}

\* the purge and the write of one process were complete before the other
\* process took its first step
Serialized ==
    \E p, q \in Procs :
        /\ p # q
        /\ racers[p].pc = "written"
        /\ \A i, j \in 1..Len(events) :
              (events[i].proc = p /\ events[j].proc = q) => i < j

----------------------------------------------------------------------------
(* A run and the run before it: SpecRerun.  last holds the source and the  *)
(* outcome of the run that ended before the current one began.             *)

\* what a run leaves: where it ended, its hash and the file names of the
\* destination directory; clean when no file-system call of it failed
Stamp ==
    IF spc # "off"
    THEN [who |-> "sprite", pc |-> spc, hash |-> sg.contentHash,
          files |-> sdist.files, clean |-> ~srun.hashFailed,
          revving |-> sg.enableHashRevving, runs |-> 0]
    ELSE [who |-> "font", pc |-> fpc, hash |-> bm.contentHash,
          files |-> fdist.files,
          clean |-> ~(frun.hashFailed \/ frun.cssFailed
                        \/ frun.manifestFailed),
          revving |-> bm.enableHashRevving, runs |-> fruns]

Over == Stamp.pc \in { "returned", "failed" }

\* the run that is over is the one last describes
Observed == Over => last.stamp = Stamp

\* a run is over: it becomes the run before the next one
RerunObserve ==
    /\ Over
    /\ last.stamp # Stamp
    /\ last' = [stamp |-> Stamp, src |-> src]
    /\ UNCHANGED <<idVars, tempVars, src, hcall, pairVars, assetVars, raceVars, batchVars, spriteVars,
                   fontVars, inlineVars>>

\* the pipelines go on, no file-system call failing
RerunStep ==
    /\ Observed
    /\ SpriteNext \/ FontNext
    /\ Stamp'.pc # "failed"
    /\ Stamp'.clean

\* renameFilesWithHash is called again after generate() has returned
RenameAgain ==
    /\ fpc = "returned"
    /\ Observed
    /\ RenameCall
    /\ UNCHANGED <<idVars, tempVars, src, hcall, pairVars, fmanifest, rerunVars, raceVars, batchVars,
                   spriteVars, inlineVars, bm, fpc, fruns>>
    /\ Stamp'.clean

\* the hash a BuildManager holds after generate() on the source
\* { a.svg: 0 } failed at mkdirSync
EarlierHash == Take(Sha256Hex(<< 0 >>), BMHashLength)

\* a FontGenerator whose earlier generate() failed before dist was made
EarlierFailedInit ==
    /\ src \in FontSrcStates
    /\ HashIdle
    /\ SpriteIdle
    /\ bm = [NewBuildManager(TRUE) EXCEPT !.contentHash = EarlierHash]
    /\ fdist = NoDirectory
    /\ fpc = "failed"
    /\ frun = [NoFontRun EXCEPT !.failedAt = "mkdir"]
    /\ fruns = 0
    /\ InlineIdle
    /\ BatchIdle
    /\ RaceIdle
    /\ AssetIdle
    /\ RerunIdle
    /\ TempIdle
    /\ IdIdle
    /\ PairIdle

RerunInit == SpriteInit \/ FontInit \/ EarlierFailedInit

RerunNext == RerunObserve \/ RerunStep \/ RenameAgain

SpecRerun == RerunInit /\ [][RerunNext]_vars

\* C14: a run that returns on the source of the run before it, with the
\* same settings and no failed file-system call in either, has the hash of
\* that run and leaves the file names that run left; and a second
\* renameFilesWithHash after a run that rewrote the style sheet changes
\* neither the file names nor the style sheet.
RevisioningIdempotence ==
    /\ []((/\ Stamp.pc = "returned"
           /\ Stamp.clean
           /\ last.stamp # << >>
           /\ last.stamp.pc = "returned"
           /\ last.stamp.clean
           /\ last.stamp.who = Stamp.who
           /\ last.stamp.revving = Stamp.revving
           /\ last.src = src) =>
             /\ Stamp.hash = last.stamp.hash
             /\ Stamp.files = last.stamp.files)
    /\ [][(/\ fpc = "returned"
           /\ fpc' = "returned"
           /\ ~frun.cssFailed
           /\ last' = last
           /\ src' = src) =>
             /\ fdist' = fdist
             /\ fcss' = fcss]_vars

----------------------------------------------------------------------------
(* Two invocations of the plugin whose callbacks interleave: SpecPair.     *)
(* Each document is first transformed alone, then both again, svgo        *)
(* passing from one invocation to the other between any two callbacks.     *)

\* the documents of the two invocations: they use the same ids
PairDocuments ==
    { UniqueInDefs("href" :> "#a"),
      SharedInDefs("href" :> "#a", "href" :> "#a"),
      TopLevelTarget("href" :> "#a") }

\* the state of an invocation: the document and the locals of fn
Invocation ==
    [input |-> input, tree |-> tree, params |-> params, uses |-> uses,
     useCounts |-> useCounts, referencedElements |-> referencedElements,
     replaced |-> replaced, stack |-> stack, ipc |-> ipc]

\* fn(root, params) has not begun
Fresh(document, parameters) ==
    [input |-> document, tree |-> document, params |-> parameters,
     uses |-> << >>, useCounts |-> << >>, referencedElements |-> << >>,
     replaced |-> << >>, stack |-> << >>, ipc |-> "parsed"]

\* a tally and a registry at module level: every invocation sees the
\* one copy
ModuleLevel(own, current) == current

\* the tally and the registry declared inside fn: the invocation that
\* runs sees its own
FnLocal(own, current) == own

\* the invocation inv runs
Resume(inv) ==
    /\ input' = inv.input
    /\ tree' = inv.tree
    /\ params' = inv.params
    /\ uses' = inv.uses
    /\ useCounts' = FnLocal(inv.useCounts, useCounts)
    /\ referencedElements' =
          FnLocal(inv.referencedElements, referencedElements)
    /\ replaced' = inv.replaced
    /\ stack' = inv.stack
    /\ ipc' = inv.ipc

Ended(inv) == inv.ipc \in { "done", "raised" }

\* a callback of the invocation that runs
PairStep ==
    /\ active # 0
    /\ InlineNext

\* an invocation that ran alone has ended: the other document is
\* transformed alone, then both begin again
PairAlone ==
    /\ Len(solo) < 2
    /\ Ended(Invocation)
    /\ solo' = Append(solo, [tree |-> tree, ipc |-> ipc])
    /\ Resume(Fresh(other.input, other.params))
    /\ other' = Fresh(input, params)
    /\ active' = 3 - active
    /\ UNCHANGED <<idVars, tempVars, src, hcall, assetVars, rerunVars, raceVars, batchVars,
                   spriteVars, fontVars>>

\* svgo passes from the invocation that runs to the other one
PairSwitch ==
    /\ Len(solo) = 2
    /\ ~Ended(other)
    /\ Resume(other)
    /\ other' = Invocation
    /\ active' = 3 - active
    /\ UNCHANGED <<idVars, tempVars, src, hcall, assetVars, rerunVars, raceVars, batchVars,
                   spriteVars, fontVars, solo>>

PairInit ==
    /\ src = << >>
    /\ HashIdle
    /\ SpriteIdle
    /\ FontIdle
    /\ BatchIdle
    /\ RaceIdle
    /\ AssetIdle
    /\ RerunIdle
    /\ TempIdle
    /\ IdIdle
    /\ input \in PairDocuments
    /\ tree = input
    /\ params \in { [onlyUnique |-> b] : b \in BOOLEAN }
    /\ uses = << >>
    /\ useCounts = << >>
    /\ referencedElements = << >>
    /\ replaced = << >>
    /\ stack = << >>
    /\ ipc = "parsed"
    /\ \E b \in PairDocuments, pb \in BOOLEAN :
          other = Fresh(b, [onlyUnique |-> pb])
    /\ solo = << >>
    /\ active = 1

PairNext == PairStep \/ PairAlone \/ PairSwitch

SpecPair == PairInit /\ [][PairNext]_vars

\* C19: the use list, the tallies and the registry belong to one
\* invocation: however the callbacks of two invocations interleave, each
\* document ends as it ended when it was transformed alone.
DocumentIndependence ==
    Len(solo) = 2 =>
        /\ Ended(Invocation) =>
              /\ tree = solo[active].tree
              /\ ipc = solo[active].ipc
        /\ Ended(other) =>
              /\ other.tree = solo[3 - active].tree
              /\ other.ipc = solo[3 - active].ipc

\* C19 witness: after both began again and svgo passed between them, both
\* invocations have ended, one on a document with a shared definition and
\* one on a document with a unique one, each rewritten as when alone.
DocumentIndependenceWitness ==
    /\ Len(solo) = 2
    /\ Ended(Invocation)
    /\ Ended(other)
    /\ { input, other.input } =
          { SharedInDefs("href" :> "#a", "href" :> "#a"),
            UniqueInDefs("href" :> "#a") }
    /\ ~params.onlyUnique
    /\ ~other.params.onlyUnique
    /\ tree = solo[active].tree
    /\ tree # input
    /\ other.tree # other.input

----------------------------------------------------------------------------
(* The state a generator object is left in, and what a run leaves of the  *)
(* directories it works on.                                                *)

\* C26: a step of a sprite run removes from the destination directory
\* only files named spriteName.svg or spriteName-<alphanumeric hash>.svg;
\* every other file, the sprite of another spriteName included, stays.
PurgeFrame ==
    [][\A f \in sdist.files \ sdist'.files :
           IsSpriteOf(sg.spriteName, f)]_vars

\* options.hrefBasePath
HrefBasePath == << "/" >>

\* getSpriteUrl()
GetSpriteUrl(g) == HrefBasePath \o SpriteFileName(g)

\* C27: once a generate() call on the generator has ended, by returning
\* or by failing at any step, getSpriteUrl() is hrefBasePath followed by
\* the name of every sprite of spriteName that is in the destination
\* directory, and after a call that returned it is hrefBasePath followed
\* by the returned spriteFile.
SpriteUrlConsistency ==
    /\ spc \in { "returned", "failed" } =>
          \A f \in SpritesOf(sg.spriteName, sdist) :
              GetSpriteUrl(sg) = HrefBasePath \o f
    /\ spc = "returned" => GetSpriteUrl(sg) = HrefBasePath \o srun.spriteFile

(* One BuildManager hashing a directory that changes between the calls:   *)
(* SpecManager.  hcall describes the most recent generateContentHash call  *)
(* on the manager.                                                         *)

\* the directory changes between two calls
ManagerEditSource ==
    /\ EditPaths(SrcPaths)
    /\ UNCHANGED <<idVars, tempVars, hcall, pairVars, assetVars, rerunVars, raceVars,
                   batchVars, spriteVars, fontVars, inlineVars>>

\* bm.generateContentHash(src)
ManagerHash ==
    /\ \E listing \in Orders(Entries(src, << >>)), env \in HashEnvs :
          LET r == BMGenerateContentHash(bm, src, listing, env.dirFails,
                                         env.readFails, env.now)
          IN  /\ bm' = [bm EXCEPT !.contentHash = r.contentHash]
              /\ hcall' = [who |-> "BuildManager",
                           revving |-> bm.enableHashRevving,
                           hashLength |-> BMHashLength, ret |-> r.ret,
                           fed |-> r.fed, failed |-> r.failed,
                           raised |-> r.raised,
                           listedSorted |->
                              (listing = SortStrings(listing))]
    /\ UNCHANGED <<idVars, tempVars, src, fdist, fpc, frun, fruns, pairVars, assetVars,
                   rerunVars, raceVars, batchVars, spriteVars, inlineVars>>

ManagerInit ==
    /\ src \in SrcStates
    /\ HashIdle
    /\ SpriteIdle
    /\ bm \in { NewBuildManager(revving) : revving \in BOOLEAN }
    /\ fdist = << >>
    /\ fpc = "off"
    /\ frun = NoFontRun
    /\ fruns = 0
    /\ InlineIdle
    /\ BatchIdle
    /\ RaceIdle
    /\ AssetIdle
    /\ RerunIdle
    /\ TempIdle
    /\ IdIdle
    /\ PairIdle

ManagerNext ==
    \/ ManagerEditSource
    \/ ManagerHash

SpecManager == ManagerInit /\ [][ManagerNext]_vars

\* C28: after any sequence of generateContentHash calls on one
\* BuildManager, getContentHash() is the value the most recent call
\* returned, and the file names getHashedFilename builds (which
\* renameFilesWithHash and generateManifest use) are built from it.
ManagerHashState ==
    hcall.who = "BuildManager" =>
        /\ bm.contentHash = hcall.ret
        /\ \A i \in 1..Len(FontExts) :
              GetHashedFilename(bm, FontName, FontExts[i])
                  = GetHashedFilename([bm EXCEPT !.contentHash = hcall.ret],
                                      FontName, FontExts[i])

(* The temporary directory of the font runs: SpecTemp.  A run puts the     *)
(* .svg files of the source into dist/temp-svg-processed, hands that       *)
(* directory to svgToFont and removes it at its end.                       *)

PathUpper == << "A", " ", "b" >> \o DotSvg

\* the files of the source directory of these runs, all at its top level
TempPaths == { PathA, PathB, PathUpper }
TempSrcStates ==
    UNION { { f \in [P -> Contents] : \A p \in P : f[p] \in ContentsOf(p) }
            : P \in SUBSET TempPaths }

\* String.prototype.toLowerCase on the characters of the model
ToLowerCase(name) ==
    [k \in 1..Len(name) |->
        IF name[k] = "A" THEN "a"
        ELSE IF name[k] = "B" THEN "b"
        ELSE name[k]]

\* .replace(/\s+/g, '-').replace(/-+/g, '-'): every run of blanks becomes
\* one dash, then every run of dashes becomes one dash
RECURSIVE CollapseDashes(_)
CollapseDashes(name) ==
    IF Len(name) < 2 THEN name
    ELSE IF name[1] = "-" /\ name[2] = "-" THEN CollapseDashes(Tail(name))
    ELSE << name[1] >> \o CollapseDashes(Tail(name))

BlanksToDashes(name) ==
    CollapseDashes([k \in 1..Len(name) |->
                       IF name[k] = " " THEN "-" ELSE name[k]])

\* .replace(/^-+|-+$/g, '') on a name whose dashes are collapsed
TrimDashes(name) ==
    LET from == IF Len(name) > 0 /\ name[1] = "-" THEN 2 ELSE 1
        to == IF Len(name) >= from /\ name[Len(name)] = "-"
              THEN Len(name) - 1 ELSE Len(name)
    IN  SubSeq(name, from, to)

\* cleanFileName
CleanFileName(file) == TrimDashes(BlanksToDashes(ToLowerCase(file)))

\* fs.readdirSync(options.src).filter(file => file.endsWith('.svg'))
SourceSvgFiles(fs) == { f \in Entries(fs, << >>) : IsSvgName(f) }

\* the source directory changes between two runs
TempEditSource ==
    /\ tpc \in Resting
    /\ EditPaths(TempPaths)
    /\ UNCHANGED <<idVars, tempVars, hcall, pairVars, assetVars, rerunVars,
                   raceVars, batchVars, spriteVars, fontVars, inlineVars>>

\* generate(): dist and tempDir are made when they do not exist; a mkdir
\* may throw
TempSetup ==
    /\ tpc \in Resting
    /\ \/ /\ temp' = Directory(temp.files)
          /\ tpc' = "setup"
       \/ /\ tpc' = "failed"
          /\ UNCHANGED temp
    /\ handed' = {}
    /\ UNCHANGED <<idVars, src, hcall, pairVars, assetVars, rerunVars, raceVars,
                   batchVars, spriteVars, fontVars, inlineVars>>

\* generate(): every .svg file of the source is written into tempDir
\* under its clean name, by the stroke fixer, by its fallback or by the
\* copy loop; a read or a copy may throw after some files are written
TempCopy ==
    /\ tpc = "setup"
    /\ \/ /\ temp' = Directory(temp.files \cup
                        { CleanFileName(f) : f \in SourceSvgFiles(src) })
          /\ tpc' = "copied"
       \/ \E some \in SUBSET SourceSvgFiles(src) :
             /\ some # SourceSvgFiles(src)
             /\ temp' = Directory(temp.files \cup
                           { CleanFileName(f) : f \in some })
             /\ tpc' = "failed"
    /\ UNCHANGED <<idVars, src, handed, hcall, pairVars, assetVars, rerunVars,
                   raceVars, batchVars, spriteVars, fontVars, inlineVars>>

\* generate(): the files of tempDir are optimized in place and
\* svgToFont({src: tempDir, ...}) compiles them, or throws
TempCompile ==
    /\ tpc = "copied"
    /\ handed' = temp.files
    /\ tpc' \in { "compiled", "failed" }
    /\ UNCHANGED <<idVars, src, temp, hcall, pairVars, assetVars, rerunVars,
                   raceVars, batchVars, spriteVars, fontVars, inlineVars>>

\* generate(): the steps after the compilation, any of which may throw,
\* and at their end fs.rmSync(tempDir); the catch block rethrows and
\* removes nothing
TempFinish ==
    /\ tpc = "compiled"
    /\ \/ /\ temp' = NoDirectory
          /\ tpc' = "returned"
       \/ /\ tpc' = "failed"
          /\ UNCHANGED temp
    /\ UNCHANGED <<idVars, src, handed, hcall, pairVars, assetVars, rerunVars,
                   raceVars, batchVars, spriteVars, fontVars, inlineVars>>

TempInit ==
    /\ src \in TempSrcStates
    /\ HashIdle
    /\ SpriteIdle
    /\ FontIdle
    /\ InlineIdle
    /\ BatchIdle
    /\ RaceIdle
    /\ AssetIdle
    /\ last = NoSnapshot
    /\ PairIdle
    /\ temp = NoDirectory
    /\ handed = {}
    /\ tpc = "idle"
    /\ IdIdle

TempNext ==
    \/ TempEditSource
    \/ TempSetup
    \/ TempCopy
    \/ TempCompile
    \/ TempFinish

SpecTemp == TempInit /\ [][TempNext]_vars

\* C29: in every run, the files svgToFont is given are exactly the .svg
\* files that are in the source directory, under their clean names,
\* whatever earlier runs did or left.
FontInputCurrent ==
    tpc = "compiled" =>
        handed = { CleanFileName(f) : f \in SourceSvgFiles(src) }

(* The symbol ids of a sprite: SpecIds.  generateSpriteId is applied to    *)
(* the .svg files of a source directory, one after the other.              *)

PathDashed == << "d", "-", "a" >> \o DotSvg
PathDEA == << "d", "/", "e", "/", "a" >> \o DotSvg
PathDashedDir == << "d", "-", "e", "/", "a" >> \o DotSvg
PathDotted == << "a", ".", "b" >> \o DotSvg
PathDots == << ".", ".", "d", "/", "a" >> \o DotSvg

IdPaths ==
    { PathA, PathB, PathDA, PathDashed, PathDEA, PathDashedDir, PathDotted,
      PathDots }

IdSrcStates == UNION { [P -> { << 0 >> }] : P \in SUBSET IdPaths }

\* the index of the last "/" of a path, 0 if none
LastSlash(path) ==
    IF \E k \in 1..Len(path) : path[k] = "/"
    THEN CHOOSE k \in 1..Len(path) :
            /\ path[k] = "/"
            /\ \A j \in (k + 1)..Len(path) : path[j] # "/"
    ELSE 0

\* path.basename(filepath)
BaseName(path) == SubSeq(path, LastSlash(path) + 1, Len(path))

\* path.extname(filepath): from the last "." of the base name on, when
\* that "." is not its first character
ExtName(path) ==
    LET name == BaseName(path)
        dots == { k \in 2..Len(name) : name[k] = "." }
    IN  IF dots = {} THEN << >>
        ELSE SubSeq(name, CHOOSE k \in dots : \A j \in dots : j <= k,
                    Len(name))

\* path.basename(filepath, ext)
BaseNameWithout(path, ext) ==
    LET name == BaseName(path)
    IN  IF ext # << >> /\ Len(name) > Len(ext) /\ EndsWith(name, ext)
        THEN SubSeq(name, 1, Len(name) - Len(ext))
        ELSE name

\* path.relative(options.src, path.dirname(filepath)) for a file below
\* src, whose path the model gives relative to src
RelativeDir(path) ==
    IF LastSlash(path) = 0 THEN << >>
    ELSE SubSeq(path, 1, LastSlash(path) - 1)

\* relPath.split('/')
RECURSIVE SplitPath(_)
SplitPath(relPath) ==
    LET s == SlashAt(relPath, 1)
    IN  IF s = 0 THEN << relPath >>
        ELSE << SubSeq(relPath, 1, s - 1) >>
                \o SplitPath(SubSeq(relPath, s + 1, Len(relPath)))

\* pathParts.join('-')
RECURSIVE JoinDash(_)
JoinDash(pathParts) ==
    IF Len(pathParts) = 0 THEN << >>
    ELSE IF Len(pathParts) = 1 THEN pathParts[1]
    ELSE pathParts[1] \o Dash \o JoinDash(Tail(pathParts))

\* generateSpriteId(filepath)
GenerateSpriteId(filepath) ==
    LET file == BaseNameWithout(filepath, ExtName(filepath))
        relPath == RelativeDir(filepath)
        pathParts ==
            SelectSeq(SplitPath(relPath),
                      LAMBDA part : part # << ".", "." >> /\ part # << "." >>)
    IN  IF \/ relPath = << >>
           \/ relPath = << "." >>
           \/ StartsWithAt(relPath, 1, << ".", "." >>)
        THEN file
        ELSE IF Len(pathParts) = 0 THEN file
        ELSE JoinDash(pathParts) \o Dash \o file

\* the source directory changes
IdEditSource ==
    /\ EditPaths(IdPaths)
    /\ ids' = [p \in (DOMAIN ids) \cap (DOMAIN src') |-> ids[p]]
    /\ UNCHANGED <<tempVars, hcall, pairVars, assetVars, rerunVars,
                   raceVars, batchVars, spriteVars, fontVars, inlineVars>>

\* processSvgFiles: the symbol of one more file is given its id
IdGenerate ==
    /\ \E filepath \in { p \in DOMAIN src : IsSvgName(p) } \ DOMAIN ids :
          ids' = (filepath :> GenerateSpriteId(filepath)) @@ ids
    /\ UNCHANGED <<src, tempVars, hcall, pairVars, assetVars, rerunVars,
                   raceVars, batchVars, spriteVars, fontVars, inlineVars>>

IdInit ==
    /\ src \in IdSrcStates
    /\ HashIdle
    /\ SpriteIdle
    /\ FontIdle
    /\ InlineIdle
    /\ BatchIdle
    /\ RaceIdle
    /\ AssetIdle
    /\ last = NoSnapshot
    /\ PairIdle
    /\ temp = << >>
    /\ handed = {}
    /\ tpc = "off"
    /\ ids = << >>

IdNext ==
    \/ IdEditSource
    \/ IdGenerate

SpecIds == IdInit /\ [][IdNext]_vars

\* C30: generateSpriteId gives a file directly in src its base name and a
\* file in a folder the folder segments and the base name joined by "-",
\* and it gives two different files of the source directory two
\* different ids.
SymbolIdUniqueness ==
    /\ PathA \in DOMAIN ids => ids[PathA] = << "a" >>
    /\ PathDA \in DOMAIN ids => ids[PathDA] = << "d", "-", "a" >>
    /\ PathDEA \in DOMAIN ids =>
          ids[PathDEA] = << "d", "-", "e", "-", "a" >>
    /\ \A p \in DOMAIN ids : \A q \in DOMAIN ids :
          p # q => ids[p] # ids[q]

====
